---- MODULE Spec2Model ----
(***************************************************************************)
(* Dr. Emanuel's Wonderland: the App component (src/README.md, the React   *)
(* source that follows the README text) as a state machine.                *)
(*                                                                         *)
(* React state (useState) is one variable per hook, under the hook's name. *)
(* A handler runs to its first await in one step; the code after the await *)
(* is a second step, taken once the store has settled the request.  A      *)
(* state update and the effect React runs for it are one step.  The hosted *)
(* backend (Firebase Auth, Firestore) is the environment: it settles       *)
(* sign-ins and writes in any order and pushes snapshots to the listeners. *)
(***************************************************************************)
EXTENDS Integers, Sequences, FiniteSets, TLC

(***************************************************************************)
(* Bounds of the model.                                                    *)
(***************************************************************************)
\* requests (addDoc / setDoc) issued in one run
MaxWrites == 2
\* a card, a drawing, a date or a photo is written only among the first MaxSaves
\* requests of a run; letters and mood entries are written up to MaxWrites, and
\* so is a date while an earlier write of the date is still with its handler
MaxSaves == 1
\* times the backend drops the signed-in session during one run
MaxAuthLoss == 1
\* segments on the drawing surface
MaxSegs == 1
\* time advances in units of which DayLength make one day
DayLength == 4
\* units by which the clock advances during one run
MaxTicks == 2
\* timers of temporary notifications pending at once
MaxToasts == 2

(***************************************************************************)
(* Values.                                                                 *)
(***************************************************************************)
\* null, as held by db, userId, auth.currentUser
NULL == "null"
Firestore == "firestore"

SessionUid == "uid-session"
TokenUid == "uid-token"
RandomUid == "uid-random"
AnonUid(n) == IF n = 1 THEN "uid-anon-1" ELSE IF n = 2 THEN "uid-anon-2" ELSE "uid-anon-3"

Resources == {"drawings", "letters", "cards", "moods", "daysCounter", "photos"}
Collections == Resources \ {"daysCounter"}
Pages == {"home", "creativeStudio", "moodTracker", "daysCounter", "gameSchedule", "photoGallery"}
Moods == {"Feliz", "Neutro", "Triste", "Animado", "Bravo"}
\* the mood buttons pressed in the model
PressedMoods == {"Feliz", "Triste"}

\* A text is lead blanks, then body non-blank characters, then trail blanks.
Text(lead, body, trail) == [lead |-> lead, body |-> body, trail |-> trail]
EmptyText == Text(0, 0, 0)
TextLen(t) == t.lead + t.body + t.trail
\* String.prototype.trim: blanks at both ends go; a text of blanks only becomes ''
Trim(t) == IF t.body = 0 THEN EmptyText ELSE Text(0, t.body, 0)
\* !s : the empty string is falsy
Falsy(t) == TextLen(t) = 0

\* maxLength of the letter textarea
LetterMaxLength == 1000
\* what the user can have in the letter textarea
LetterInputs ==
    {t \in {EmptyText, Text(1, 0, 0), Text(1, 1, 0)} :
        TextLen(t) <= LetterMaxLength}
\* texts the user tries to enter at or over the limit, by typing or pasting
LongLetterEntries ==
    {Text(0, LetterMaxLength, 0), Text(0, LetterMaxLength + 1, 0),
     Text(2, LetterMaxLength - 3, 2), Text(LetterMaxLength, 1, 0)}
Min(a, b) == IF a < b THEN a ELSE b
\* a textarea without maxLength takes all of the text
MaxLengthIgnored(t) == t
\* maxLength="1000": the textarea takes no more than the first 1000 characters
MaxLengthApplied(t) ==
    LET lead == Min(t.lead, LetterMaxLength)
        body == Min(t.body, LetterMaxLength - lead)
        trail == Min(t.trail, LetterMaxLength - lead - body)
    IN  Text(lead, body, trail)
\* what the user can have in the card textarea
CardInputs == {EmptyText, Text(1, 0, 0), Text(1, 1, 1)}
White == "#ffffff"
BgColors == {White, "#336699"}

\* the day-counter date: unset (null or ''), or a calendar day counted from a fixed day
NoDate == [has |-> FALSE, day |-> 0]
DateOf(d) == [has |-> TRUE, day |-> d]
DateInputs == {NoDate, DateOf(10), DateOf(20)}
\* the dates picked in the runs about the count, in days before the local date
DaysAgo == {0, 1, 10}

(***************************************************************************)
(* Time.  An instant is a number of units since the epoch, DayLength units *)
(* to the day; the local time of a zone z is UTC + z.                      *)
(***************************************************************************)
Abs(x) == IF x < 0 THEN 0 - x ELSE x
\* Math.ceil(a / b) for b > 0
Ceil(a, b) == 0 - ((0 - a) \div b)
\* the day, in UTC, on which the page is loaded, and the instants it can be
\* loaded at: every time of that day
Today == 20
LoadInstants == (Today * DayLength) .. (Today * DayLength + DayLength - 1)
\* the local time zones: up to half a day either side of UTC
Offsets == {z \in (0 - DayLength) .. DayLength : 2 * Abs(z) <= DayLength}
\* new Date('YYYY-MM-DD'): a date-only string is parsed as midnight UTC
ParseDate(day) == day * DayLength
\* getFullYear / getMonth / getDate of an instant: the local calendar date
LocalDate(t, z) == (t + z) \div DayLength
\* new Date(y, m, d): midnight of a local calendar date
LocalMidnight(day, z) == day * DayLength - z
\* toISOString().split('T')[0]: the calendar date of an instant in UTC
IsoDate(t) == t \div DayLength
\* noon UTC of that day: the instant of the runs in which time plays no part
Noon == Today * DayLength + DayLength \div 2

\* the count had it been the difference of the two calendar dates
DaysKnownByDate(start, t) ==
    IF start.has THEN Abs(IsoDate(t) - start.day) ELSE 0

\* the count with Math.floor in place of Math.ceil
DaysKnownFloored(start, t) ==
    IF start.has
    THEN Abs(t - ParseDate(start.day)) \div DayLength
    ELSE 0

\* the daysKnown effect: what it sets for a start date at instant t
DaysKnown(start, t) ==
    IF start.has
    THEN LET diffTime == Abs(t - ParseDate(start.day))
         IN  Ceil(diffTime, DayLength)
    ELSE 0

\* the text of the temporary notification: none (''), or the reminder of a
\* game with the date as toLocaleDateString shows it
NoNotification == [opponent |-> "", date |-> 0]
Reminder(game, z) ==
    [opponent |-> game.opponent, date |-> LocalDate(ParseDate(game.date), z)]

\* fetchGameSchedule: the fixtures it builds at instant t in zone z
GameDate(t, z, k) == IsoDate(LocalMidnight(LocalDate(t, z) + k, z))
Games(t, z) ==
    << [id |-> 1, opponent |-> "Cruzeiro", date |-> GameDate(t, z, 2), time |-> "19:00"],
       [id |-> 2, opponent |-> "Flamengo", date |-> GameDate(t, z, 5), time |-> "21:30"],
       [id |-> 3, opponent |-> "Gremio", date |-> GameDate(t, z, 10), time |-> "16:00"] >>

Black == "#000000"
Eraser == "eraser"
DrawingColors == {Black, "#cc0000", Eraser}
\* useState(5): the stroke width
DefaultSize == 5
DrawingSizes == {DefaultSize, 12}

\* the drawing surface: the segments stroked on it, oldest first; <<>> is the cleared surface
BlankSurface == <<>>

\* the fields of a stored document that the app writes
NoFields == [content |-> EmptyText, bgColor |-> "", dataUrl |-> BlankSurface,
             photo |-> "", mood |-> "", startDate |-> NoDate]

\* the image files the user can pick
Files == {"photo.png"}

\* messages of showAppMessage
Msg(text) == [text |-> text, arg |-> ""]
MsgConfigMissing == Msg("Erro: Configuracao do Firebase ausente.")
MsgConfigIncomplete == Msg("Erro: Configuracao do Firebase incompleta.")
MsgInitError == Msg("Erro ao inicializar o aplicativo.")
MsgWaitSave == Msg("Por favor, aguarde a inicializacao para salvar.")
MsgWaitMood == Msg("Por favor, aguarde a inicializacao para registrar o humor.")
MsgWaitDate == Msg("Por favor, aguarde a inicializacao para salvar a data.")
MsgWaitPhoto == Msg("Por favor, aguarde a inicializacao para fazer upload de fotos.")
MsgLetterEmpty == Msg("A carta nao pode estar vazia.")
MsgLetterSaved == Msg("Carta salva com sucesso!")
MsgLetterError == Msg("Erro ao salvar a carta. Tente novamente.")
MsgCardEmpty == Msg("O cartao nao pode estar vazio.")
MsgCardSaved == Msg("Cartao salvo com sucesso!")
MsgCardError == Msg("Erro ao salvar o cartao. Tente novamente.")
MsgDrawingSaved == Msg("Desenho salvo com sucesso!")
MsgDrawingError == Msg("Erro ao salvar o desenho. Tente novamente.")
MsgMoodSaved(mood) == [text |-> "Humor registrado: ", arg |-> mood]
MsgMoodError == Msg("Erro ao registrar o humor. Tente novamente.")
MsgDateMissing == Msg("Por favor, selecione uma data.")
MsgDateSaved == Msg("Data inicial salva com sucesso!")
MsgDateError == Msg("Erro ao salvar a data inicial. Tente novamente.")
MsgPhotoSaved == Msg("Foto adicionada a galeria!")
MsgPhotoError == Msg("Erro ao adicionar a foto. Tente novamente.")
WaitMessages == {MsgWaitSave, MsgWaitMood, MsgWaitDate, MsgWaitPhoto}

(***************************************************************************)
(* The environment the page is loaded in.                                  *)
(*   window    typeof window !== 'undefined'                               *)
(*   hostCfg   __firebase_config: not defined, defined without apiKey or   *)
(*             authDomain, defined with both, or not parsable JSON         *)
(*   envKey    process.env.REACT_APP_FIREBASE_API_KEY is set               *)
(*   envDomain process.env.REACT_APP_FIREBASE_AUTH_DOMAIN is set           *)
(*   token     __initial_auth_token is defined                             *)
(*   session   the auth provider holds a signed-in session from before     *)
(***************************************************************************)
HostConfigs == {"absent", "incomplete", "complete", "malformed"}
Envs ==
    [window : BOOLEAN, hostCfg : HostConfigs, envKey : BOOLEAN, envDomain : BOOLEAN,
     token : BOOLEAN, session : BOOLEAN]
\* the environments the feature specifications start in: a hosting shell that
\* injects a complete configuration, and a plain browser with the .env values
WidgetEnvs ==
    {e \in Envs : /\ e.window /\ ~e.session /\ ~e.token
                  /\ \/ e.hostCfg = "complete" /\ ~e.envKey /\ ~e.envDomain
                     \/ e.hostCfg = "absent" /\ e.envKey /\ e.envDomain}
\* the first of them alone
HostedEnvs == {e \in WidgetEnvs : e.hostCfg = "complete"}

VARIABLES
    env,               \* the environment, fixed at load
    mounted,           \* the App component is mounted
    initOutcome,       \* how the Firebase init effect ended: none, missing, incomplete, threw, ok
    db,                \* useState(null): the Firestore handle
    userId,            \* useState(null)
    isAuthReady,       \* useState(false)
    authListener,      \* the onAuthStateChanged listener is registered
    currentUser,       \* firebaseAuth.currentUser
    authQ,             \* auth state changes not yet delivered to the listener
    authTasks,         \* runs of the listener callback that reached their await
    anonUsers,         \* anonymous users the provider has created
    authLosses,        \* sessions dropped by the provider so far
    subs,              \* active onSnapshot listeners
    dirty,             \* active listeners with a snapshot to deliver
    subGen,            \* runs of the subscription effect that subscribed
    currentPage,
    showMessageModal,
    modalContent,
    letterContent,
    cardText,
    cardBgColor,
    currentMood,
    startDate,
    drawingColor,
    drawingSize,
    surface,           \* the canvas raster, NULL while no canvas element exists
    canvasListeners,   \* the drawing effect's pointer listeners are on the canvas element
    isDrawing,         \* let isDrawing of the drawing effect's current run
    isErasing,         \* let isErasing of the drawing effect's current run
    drawings, letters, cards, moods, photos,   \* useState([]) : the subscribed collections
    docs,              \* the documents the store holds
    clock,             \* the store's clock (serverTimestamp)
    writes,            \* requests issued whose handler has not finished
    issued,            \* requests issued so far
    reads,             \* FileReader reads in flight
    now,               \* the current instant, in units of DayLength to the day, UTC
    tz,                \* the local time zone: local time is UTC + tz
    daysKnown,         \* useState(0)
    gameSchedule,      \* useState([])
    showNotification,  \* useState(false)
    notificationMessage,
    toastTimers,       \* setTimeout callbacks of showTemporaryNotification not yet run
    last               \* the handler step just taken: [op, out]

authVars == <<db, userId, isAuthReady, authListener, currentUser, authQ, authTasks,
              anonUsers, authLosses, initOutcome>>
subVars == <<subs, dirty, subGen>>
modalVars == <<showMessageModal, modalContent>>
canvasVars == <<drawingColor, drawingSize, surface, canvasListeners, isDrawing, isErasing>>
dayVars == <<startDate, daysKnown>>
inputVars == <<letterContent, cardText, cardBgColor, currentMood, dayVars, canvasVars>>
viewVars == <<drawings, letters, cards, moods, photos>>
storeVars == <<docs, clock, writes, issued, reads>>
timeVars == <<now, tz>>
toastVars == <<showNotification, notificationMessage, toastTimers>>
vars == <<env, mounted, authVars, subVars, currentPage, modalVars, inputVars, viewVars,
          storeVars, timeVars, gameSchedule, toastVars, last>>

Step(op, out) == last' = [op |-> op, out |-> out]
\* a step of the environment, or of a handler that only sets a field
Quiet == last' = [op |-> "", out |-> ""]

(***************************************************************************)
(* showAppMessage                                                          *)
(***************************************************************************)
showAppMessage(message) ==
    /\ modalContent' = message
    /\ showMessageModal' = TRUE

(***************************************************************************)
(* The subscription effect, deps [isAuthReady, userId, db].                *)
(***************************************************************************)
\* the six listeners one run of the effect creates
Subscribed(uid, gen) == {[res |-> r, uid |-> uid, gen |-> gen] : r \in Resources}

\* the cleanup had it left out unsubscribePhotos()
UnsubscribedButPhotos(S, gen) == {s \in S : s.gen # gen \/ s.res = "photos"}

\* the cleanup a run returns: its six unsubscribe calls
Unsubscribed(S, gen) == {s \in S : s.gen # gen}

\* the condition under which the effect subscribes
ShouldSubscribe(ready, uid, handle) == ready /\ uid # NULL /\ handle # NULL

\* React runs the effect after a render that changed a dependency: first the
\* cleanup of the previous run, then the body.
SubscriptionEffect(ready, uid, handle) ==
    IF <<ready, uid, handle>> = <<isAuthReady, userId, db>>
    THEN UNCHANGED subVars
    ELSE LET hadRun == ShouldSubscribe(isAuthReady, userId, db)
             kept == IF hadRun THEN Unsubscribed(subs, subGen) ELSE subs
         IN  IF ShouldSubscribe(ready, uid, handle)
             THEN /\ subGen' = subGen + 1
                  /\ subs' = kept \cup Subscribed(uid, subGen + 1)
                  /\ dirty' = (dirty \cap kept) \cup Subscribed(uid, subGen + 1)
             ELSE /\ subGen' = subGen
                  /\ subs' = kept
                  /\ dirty' = dirty \cap kept

(***************************************************************************)
(* The Firebase init effect, deps [].                                      *)
(***************************************************************************)
\* which source the effect reads the configuration from
ConfigSource(e) ==
    IF e.window THEN "host"
    ELSE IF e.envKey THEN "env"
    ELSE "none"

\* the completeness test had it looked at the API key alone
ConfigCompleteKeyOnly(e) ==
    CASE ConfigSource(e) = "host" -> e.hostCfg = "complete"
      [] ConfigSource(e) = "env" -> e.envKey
      [] OTHER -> FALSE

\* firebaseConfig.apiKey && firebaseConfig.authDomain after the effect filled it
ConfigComplete(e) ==
    CASE ConfigSource(e) = "host" -> e.hostCfg = "complete"
      [] ConfigSource(e) = "env" -> e.envKey /\ e.envDomain
      [] OTHER -> FALSE

\* the callback had it never looked at the token
InitialAuthTokenIgnored(e) == FALSE

\* initialAuthToken as the listener callback closes over it
InitialAuthToken(e) == e.window /\ e.token

FirebaseInitEffect ==
    /\ mounted /\ initOutcome = "none"
    /\ IF ConfigSource(env) = "host" /\ env.hostCfg = "malformed"
       THEN \* JSON.parse throws: the catch block
            /\ initOutcome' = "threw"
            /\ showAppMessage(MsgInitError)
            /\ UNCHANGED <<db, authListener, currentUser, authQ>>
       ELSE IF ConfigSource(env) = "none"
       THEN /\ initOutcome' = "missing"
            /\ showAppMessage(MsgConfigMissing)
            /\ UNCHANGED <<db, authListener, currentUser, authQ>>
       ELSE IF ~ConfigComplete(env)
       THEN /\ initOutcome' = "incomplete"
            /\ showAppMessage(MsgConfigIncomplete)
            /\ UNCHANGED <<db, authListener, currentUser, authQ>>
       ELSE /\ initOutcome' = "ok"
            /\ db' = Firestore
            /\ authListener' = TRUE
            /\ currentUser' = IF env.session THEN SessionUid ELSE NULL
            \* a new listener is first called with the current user
            /\ authQ' = <<IF env.session THEN SessionUid ELSE NULL>>
            /\ UNCHANGED modalVars
    /\ SubscriptionEffect(isAuthReady, userId, db')
    \* the mount flush also runs fetchGameSchedule
    /\ gameSchedule' = Games(now, tz)
    /\ Quiet
    /\ UNCHANGED <<env, timeVars, toastVars,
                   mounted, userId, isAuthReady, authTasks, anonUsers, authLosses,
                   currentPage, inputVars, viewVars, storeVars>>

(***************************************************************************)
(* The onAuthStateChanged callback.                                        *)
(***************************************************************************)
\* the callback is called with the next auth state; with a user it sets the
\* identity, without one it starts a sign-in and awaits it
OnAuthStateChanged ==
    /\ authListener /\ authQ # <<>>
    /\ LET user == Head(authQ) IN
       /\ authQ' = Tail(authQ)
       /\ IF user # NULL
          THEN /\ userId' = user
               /\ isAuthReady' = TRUE
               /\ authTasks' = authTasks
               /\ SubscriptionEffect(TRUE, user, db)
               /\ Quiet
          ELSE /\ authTasks' = Append(authTasks,
                    [kind |-> IF InitialAuthToken(env) THEN "token" ELSE "anonymous",
                     st |-> "awaiting"])
               /\ UNCHANGED <<userId, isAuthReady, subVars>>
               /\ Quiet
    /\ UNCHANGED <<env, timeVars, gameSchedule, toastVars,
                   mounted, db, authListener, currentUser, anonUsers, authLosses,
                   initOutcome, currentPage, modalVars, inputVars, viewVars, storeVars>>

\* the provider accepts a sign-in: the user becomes the current user and the
\* listeners are told
SignInResolve(i) ==
    /\ i \in 1..Len(authTasks) /\ authTasks[i].st = "awaiting"
    /\ LET uid == IF authTasks[i].kind = "token" THEN TokenUid ELSE AnonUid(anonUsers + 1) IN
       /\ currentUser' = uid
       /\ anonUsers' = IF authTasks[i].kind = "token" THEN anonUsers ELSE anonUsers + 1
       /\ authQ' = IF currentUser # uid THEN Append(authQ, uid) ELSE authQ
    /\ authTasks' = [authTasks EXCEPT ![i].st = "resolved"]
    /\ Quiet
    /\ UNCHANGED <<env, timeVars, gameSchedule, toastVars,
                   mounted, db, userId, isAuthReady, authListener, authLosses,
                   initOutcome, subVars, currentPage, modalVars, inputVars, viewVars,
                   storeVars>>

\* the provider rejects a sign-in: the await throws and the callback ends there
SignInReject(i) ==
    /\ i \in 1..Len(authTasks) /\ authTasks[i].st = "awaiting"
    /\ authTasks' = [authTasks EXCEPT ![i].st = "threw"]
    /\ Quiet
    /\ UNCHANGED <<env, timeVars, gameSchedule, toastVars,
                   mounted, db, userId, isAuthReady, authListener, currentUser, authQ,
                   anonUsers, authLosses, initOutcome, subVars, currentPage, modalVars,
                   inputVars, viewVars, storeVars>>

\* the identity had the callback always taken crypto.randomUUID()
FallbackAlwaysRandom(user) == RandomUid

\* firebaseAuth.currentUser?.uid || crypto.randomUUID()
FallbackUserId(user) == IF user # NULL THEN user ELSE RandomUid

\* the callback after its await
AuthCallbackResume(i) ==
    /\ i \in 1..Len(authTasks) /\ authTasks[i].st = "resolved"
    /\ authTasks' = [authTasks EXCEPT ![i].st = "done"]
    /\ IF mounted
       THEN /\ userId' = FallbackUserId(currentUser)
            /\ isAuthReady' = TRUE
            /\ SubscriptionEffect(TRUE, userId', db)
       ELSE UNCHANGED <<userId, isAuthReady, subVars>>
    /\ Quiet
    /\ UNCHANGED <<env, timeVars, gameSchedule, toastVars,
                   mounted, db, authListener, currentUser, authQ, anonUsers,
                   authLosses, initOutcome, currentPage, modalVars, inputVars, viewVars,
                   storeVars>>

\* the provider drops the session (the account is disabled or deleted, or
\* another tab signs out): the listeners are told there is no user
AuthSessionLost ==
    /\ currentUser # NULL /\ authLosses < MaxAuthLoss
    /\ authLosses' = authLosses + 1
    /\ currentUser' = NULL
    /\ authQ' = Append(authQ, NULL)
    /\ Quiet
    /\ UNCHANGED <<env, timeVars, gameSchedule, toastVars,
                   mounted, db, userId, isAuthReady, authListener, authTasks,
                   anonUsers, initOutcome, subVars, currentPage, modalVars, inputVars,
                   viewVars, storeVars>>

\* the component unmounts: both effects' cleanups run
Unmount ==
    /\ mounted
    /\ mounted' = FALSE
    /\ authListener' = FALSE
    /\ authQ' = <<>>
    /\ LET kept == IF ShouldSubscribe(isAuthReady, userId, db)
                   THEN Unsubscribed(subs, subGen) ELSE subs IN
       /\ subs' = kept
       /\ dirty' = dirty \cap kept
       /\ subGen' = subGen
    /\ surface' = NULL
    /\ canvasListeners' = FALSE
    /\ isDrawing' = FALSE
    /\ isErasing' = FALSE
    /\ Quiet
    /\ UNCHANGED <<env, timeVars, gameSchedule, toastVars,
                   db, userId, isAuthReady, currentUser, authTasks, anonUsers,
                   authLosses, initOutcome, currentPage, modalVars, letterContent,
                   cardText, cardBgColor, currentMood, dayVars, drawingColor, drawingSize,
                   viewVars, storeVars>>

InitApp(E) ==
    /\ env \in E
    /\ mounted = TRUE
    /\ initOutcome = "none"
    /\ db = NULL /\ userId = NULL /\ isAuthReady = FALSE
    /\ authListener = FALSE /\ currentUser = NULL
    /\ authQ = <<>> /\ authTasks = <<>> /\ anonUsers = 0 /\ authLosses = 0
    /\ subs = {} /\ dirty = {} /\ subGen = 0
    /\ currentPage = "home"
    /\ showMessageModal = FALSE /\ modalContent = Msg("")
    /\ letterContent = EmptyText
    /\ cardText = EmptyText /\ cardBgColor = White
    /\ currentMood = ""
    /\ startDate = NoDate
    /\ drawingColor = Black /\ drawingSize = DefaultSize
    /\ surface = NULL /\ canvasListeners = FALSE /\ isDrawing = FALSE /\ isErasing = FALSE
    /\ drawings = <<>> /\ letters = <<>> /\ cards = <<>> /\ moods = <<>> /\ photos = <<>>
    /\ docs = {} /\ clock = 0 /\ writes = {} /\ issued = 0 /\ reads = {}
    /\ daysKnown = 0
    /\ gameSchedule = <<>>
    /\ showNotification = FALSE /\ notificationMessage = NoNotification /\ toastTimers = 0
    /\ last = [op |-> "", out |-> ""]

\* the page is loaded at noon UTC, in the UTC zone
InitWith(E) == InitApp(E) /\ now = Noon /\ tz = 0

\* the page is loaded at any time of day, in any zone
InitAnyTime(E) == InitApp(E) /\ now \in LoadInstants /\ tz \in Offsets

(***************************************************************************)
(* The document store.                                                     *)
(***************************************************************************)
\* the fixed key of the day-counter document, daysCounter/data
DataKey == 0

\* the bound on the run: a request on res may still be issued
CanIssue(res) ==
    issued < (IF \/ res \in {"letters", "moods"}
                 \/ res = "daysCounter" /\ \E w \in writes : w.res = "daysCounter"
              THEN MaxWrites ELSE MaxSaves)

\* a request as it leaves the handler: n numbers the requests of the run
Request(n, op, res, uid, id, fields) ==
    [n |-> n, op |-> op, res |-> res, uid |-> uid, id |-> id, fields |-> fields,
     st |-> "sent"]

\* the write of a record had it been a setDoc at one key of its collection
addDocAtOneKey(op, res, fields) ==
    /\ CanIssue(res)
    /\ writes' = writes \cup {Request(issued + 1, op, res, userId, DataKey, fields)}
    /\ issued' = issued + 1

\* the write of a record had the handler dropped a press made while an earlier
\* request of the same handler is awaited
addDocUnlessPending(op, res, fields) ==
    IF \E w \in writes : w.op = op /\ w.st = "sent"
    THEN UNCHANGED <<writes, issued>>
    ELSE /\ CanIssue(res)
         /\ writes' = writes \cup {Request(issued + 1, op, res, userId, issued + 1, fields)}
         /\ issued' = issued + 1

\* addDoc(collection(db, .../users/${userId}/<res>), fields): a new document
\* id (the model numbers them as they are drawn), under the identity the
\* handler was rendered with
addDoc(op, res, fields) ==
    /\ CanIssue(res)
    /\ writes' = writes \cup {Request(issued + 1, op, res, userId, issued + 1, fields)}
    /\ issued' = issued + 1

\* the write of the date had it been an addDoc on a daysCounter collection
setDocAppending(op, res, fields) ==
    /\ CanIssue(res)
    /\ writes' = writes \cup {Request(issued + 1, op, res, userId, issued + 1, fields)}
    /\ issued' = issued + 1

\* setDoc(doc(db, .../users/${userId}/daysCounter/data), fields)
setDoc(op, res, fields) ==
    /\ CanIssue(res)
    /\ writes' = writes \cup {Request(issued + 1, op, res, userId, DataKey, fields)}
    /\ issued' = issued + 1

\* the store's documents after it applies a request: addDoc adds one with the
\* server's timestamp, setDoc replaces the document at the key
Applied(w, at) ==
    {d \in docs : ~(d.uid = w.uid /\ d.res = w.res /\ d.id = w.id)}
        \cup {[uid |-> w.uid, res |-> w.res, id |-> w.id, fields |-> w.fields, ts |-> at]}

\* the store applies a request and tells the listeners on that collection
StoreCommit(w) ==
    /\ w \in writes /\ w.st = "sent"
    /\ clock' = clock + 1
    /\ docs' = Applied(w, clock + 1)
    /\ writes' = (writes \ {w}) \cup {[w EXCEPT !.st = "committed"]}
    /\ dirty' = dirty \cup {s \in subs : s.uid = w.uid /\ s.res = w.res}
    /\ Quiet
    /\ UNCHANGED <<env, timeVars, gameSchedule, toastVars,
                   mounted, authVars, subs, subGen, currentPage, modalVars, inputVars,
                   viewVars, issued, reads>>

\* the store refuses a request
StoreReject(w) ==
    /\ w \in writes /\ w.st = "sent"
    /\ writes' = (writes \ {w}) \cup {[w EXCEPT !.st = "rejected"]}
    /\ Quiet
    /\ UNCHANGED <<env, timeVars, gameSchedule, toastVars,
                   mounted, authVars, subVars, currentPage, modalVars, inputVars,
                   viewVars, docs, clock, issued, reads>>

\* the documents of S by document id, smallest first
RECURSIVE ById(_)
ById(S) ==
    IF S = {} THEN <<>>
    ELSE LET m == CHOOSE x \in S : \A y \in S : x.id <= y.id
         IN  <<m>> \o ById(S \ {m})

\* the documents of S by timestamp, newest first
RECURSIVE ByTimestampDesc(_)
ByTimestampDesc(S) ==
    IF S = {} THEN <<>>
    ELSE LET m == CHOOSE x \in S : \A y \in S : x.ts >= y.ts
         IN  <<m>> \o ByTimestampDesc(S \ {m})

\* the documents a listener's collection holds
DocsOf(s) == {d \in docs : d.uid = s.uid /\ d.res = s.res}

\* snapshot.docs of a collection reference: by document id
CollectionSnapshot(s) == ById(DocsOf(s))

\* snapshot.docs had the listener been put on userMoodsRef, without the query
MoodsSnapshotUnordered(s) == ById(DocsOf(s))

\* snapshot.docs of query(userMoodsRef, orderBy('timestamp', 'desc'))
MoodsSnapshot(s) == ByTimestampDesc(DocsOf(s))

\* snapshot.docs.map(doc => ({ id: doc.id, ...doc.data() }))
Loaded(snapshot) ==
    [i \in 1..Len(snapshot) |->
        [id |-> snapshot[i].id, fields |-> snapshot[i].fields, ts |-> snapshot[i].ts]]

\* the day-counter listener: data.startDate || null, null without a document
LoadedStartDate(s) ==
    IF DocsOf(s) = {} THEN NoDate
    ELSE (CHOOSE d \in DocsOf(s) : TRUE).fields.startDate

\* a listener's callback runs with the current snapshot
OnSnapshot(s) ==
    /\ s \in dirty
    /\ dirty' = dirty \ {s}
    /\ drawings' = IF s.res = "drawings" THEN Loaded(CollectionSnapshot(s)) ELSE drawings
    /\ letters' = IF s.res = "letters" THEN Loaded(CollectionSnapshot(s)) ELSE letters
    /\ cards' = IF s.res = "cards" THEN Loaded(CollectionSnapshot(s)) ELSE cards
    /\ moods' = IF s.res = "moods" THEN Loaded(MoodsSnapshot(s)) ELSE moods
    /\ photos' = IF s.res = "photos" THEN Loaded(CollectionSnapshot(s)) ELSE photos
    /\ startDate' = IF s.res = "daysCounter" THEN LoadedStartDate(s) ELSE startDate
    \* the daysKnown effect runs when startDate changed
    /\ daysKnown' = IF startDate' # startDate THEN DaysKnown(startDate', now) ELSE daysKnown
    /\ Quiet
    /\ UNCHANGED <<env, timeVars, gameSchedule, toastVars,
                   mounted, authVars, subs, subGen, currentPage, modalVars,
                   letterContent, cardText, cardBgColor, currentMood, canvasVars, storeVars>>

\* the error callback had it reported to the user with showAppMessage
consoleErrorShown(res) == showAppMessage([text |-> "Erro ao carregar ", arg |-> res])

\* console.error("Erro ao carregar ...", error): nothing of it reaches the page
consoleError(res) == UNCHANGED modalVars

\* a listener fails: the store ends it and calls its error callback
OnSnapshotError(s) ==
    /\ s \in subs
    /\ subs' = subs \ {s}
    /\ dirty' = dirty \ {s}
    /\ consoleError(s.res)
    /\ Step("onSnapshotError", s.res)
    /\ UNCHANGED <<env, timeVars, gameSchedule, toastVars,
                   mounted, authVars, subGen, currentPage, inputVars, viewVars, storeVars>>

\* a saved-items list of the page: the items, or the 'none yet' line when
\* the list is empty
ListView(list) ==
    IF Len(list) > 0 THEN [shows |-> "items", items |-> list]
    ELSE [shows |-> "noneYet", items |-> <<>>]

(***************************************************************************)
(* Shell: navigation and the message dialog.                               *)
(***************************************************************************)
\* the user can act on the page: it is mounted, and React has run the mount
\* effects, which it flushes before it handles an input event
Interactive == mounted /\ initOutcome # "none"

\* setCurrentPage(p): the canvas element exists while the Creative Studio is
\* rendered; a new element is blank and carries no listeners
Navigate(p) ==
    /\ Interactive /\ p \in Pages /\ p # currentPage
    /\ currentPage' = p
    /\ IF p = "creativeStudio"
       THEN /\ surface' = BlankSurface
            /\ UNCHANGED <<canvasListeners, isDrawing, isErasing>>
       ELSE /\ surface' = NULL
            /\ canvasListeners' = FALSE
            /\ UNCHANGED <<isDrawing, isErasing>>
    /\ Quiet
    /\ UNCHANGED <<env, timeVars, gameSchedule, toastVars,
                   mounted, authVars, subVars, modalVars, letterContent, cardText,
                   cardBgColor, currentMood, dayVars, drawingColor, drawingSize,
                   viewVars, storeVars>>

\* onClose of MessageModal
CloseMessageModal ==
    /\ Interactive /\ showMessageModal
    /\ showMessageModal' = FALSE
    /\ Quiet
    /\ UNCHANGED <<env, timeVars, gameSchedule, toastVars,
                   mounted, authVars, subVars, currentPage, modalContent, inputVars,
                   viewVars, storeVars>>

\* the guard had the handlers not tested it
NeverNotInitialized == FALSE

\* the guard every save handler starts with: !userId || !db
NotInitialized == userId = NULL \/ db = NULL

(***************************************************************************)
(* Creative Studio: letters.                                               *)
(***************************************************************************)
\* onChange of the letter textarea
SetLetterContent(t) ==
    /\ Interactive /\ currentPage = "creativeStudio"
    /\ MaxLengthApplied(t) # letterContent
    /\ letterContent' = MaxLengthApplied(t)
    /\ Quiet
    /\ UNCHANGED <<env, timeVars, gameSchedule, toastVars,
                   mounted, authVars, subVars, currentPage, modalVars, cardText,
                   cardBgColor, currentMood, dayVars, canvasVars, viewVars, storeVars>>

\* the emptiness test had trim() been left out: !letterContent
LetterIsEmptyNoTrim(t) == Falsy(t)

\* !letterContent.trim()
LetterIsEmpty(t) == Falsy(Trim(t))

\* the fields had the handler stored the trimmed text: content: letterContent.trim()
LetterFieldsTrimmed(t) == [NoFields EXCEPT !.content = Trim(t)]

\* the fields saveLetter writes
LetterFields(t) == [NoFields EXCEPT !.content = t]

\* saveLetter, to its await
SaveLetter ==
    /\ Interactive /\ currentPage = "creativeStudio"
    /\ IF NotInitialized
       THEN /\ showAppMessage(MsgWaitSave)
            /\ Step("saveLetter", "wait")
            /\ UNCHANGED <<writes, issued>>
       ELSE IF LetterIsEmpty(letterContent)
       THEN /\ showAppMessage(MsgLetterEmpty)
            /\ Step("saveLetter", "invalid")
            /\ UNCHANGED <<writes, issued>>
       ELSE /\ addDoc("saveLetter", "letters", LetterFields(letterContent))
            /\ Step("saveLetter", "issued")
            /\ UNCHANGED modalVars
    /\ UNCHANGED <<env, timeVars, gameSchedule, toastVars,
                   mounted, authVars, subVars, currentPage, inputVars, viewVars,
                   docs, clock, reads>>

\* what a handler finds when its await returns
Settled(w, op) == w \in writes /\ w.op = op /\ w.st \in {"committed", "rejected"}

\* the letter field had setLetterContent('') been placed after the try block
LetterClearedAfterSave(st, t) == EmptyText

\* the letter field after the await: setLetterContent('') in the try block only
LetterAfterSave(st, t) == IF st = "committed" THEN EmptyText ELSE t

\* saveLetter, after its await
SaveLetterResume(w) ==
    /\ Settled(w, "saveLetter")
    /\ writes' = writes \ {w}
    /\ IF ~mounted
       THEN UNCHANGED <<modalVars, letterContent>>
       ELSE /\ showAppMessage(IF w.st = "committed" THEN MsgLetterSaved ELSE MsgLetterError)
            /\ letterContent' = LetterAfterSave(w.st, letterContent)
    /\ Step("saveLetterResume", w.st)
    /\ UNCHANGED <<env, timeVars, gameSchedule, toastVars,
                   mounted, authVars, subVars, currentPage, cardText, cardBgColor,
                   currentMood, dayVars, canvasVars, viewVars, docs, clock, issued, reads>>

(***************************************************************************)
(* Creative Studio: cards.                                                 *)
(***************************************************************************)
SetCardText(t) ==
    /\ Interactive /\ currentPage = "creativeStudio"
    /\ t \in CardInputs /\ t # cardText
    /\ cardText' = t
    /\ Quiet
    /\ UNCHANGED <<env, timeVars, gameSchedule, toastVars,
                   mounted, authVars, subVars, currentPage, modalVars, letterContent,
                   cardBgColor, currentMood, dayVars, canvasVars, viewVars, storeVars>>

SetCardBgColor(c) ==
    /\ Interactive /\ currentPage = "creativeStudio"
    /\ c \in BgColors /\ c # cardBgColor
    /\ cardBgColor' = c
    /\ Quiet
    /\ UNCHANGED <<env, timeVars, gameSchedule, toastVars,
                   mounted, authVars, subVars, currentPage, modalVars, letterContent,
                   cardText, currentMood, dayVars, canvasVars, viewVars, storeVars>>

\* cardTemplates: each text by its length, none with a blank at either end
cardTemplates ==
    << [name |-> "Padrao", text |-> EmptyText, bgColor |-> White],
       [name |-> "Galo Doido", text |-> Text(0, 51, 0), bgColor |-> "#fcd34d"],
       [name |-> "Manto Sagrado", text |-> Text(0, 65, 0), bgColor |-> Black],
       [name |-> "Campo", text |-> Text(0, 58, 0), bgColor |-> "#34d399"] >>

\* the card had the template filled only what the user left empty or white
CardMergedWithTemplate(template, text, color) ==
    [text |-> IF Falsy(text) THEN template.text ELSE text,
     bgColor |-> IF color = White THEN template.bgColor ELSE color]

\* the card after applyCardTemplate(template)
CardAfterTemplate(template, text, color) ==
    [text |-> template.text, bgColor |-> template.bgColor]

\* onClick of a template button
ApplyCardTemplate(template) ==
    /\ Interactive /\ currentPage = "creativeStudio"
    /\ cardText' = CardAfterTemplate(template, cardText, cardBgColor).text
    /\ cardBgColor' = CardAfterTemplate(template, cardText, cardBgColor).bgColor
    /\ Step("applyCardTemplate", template.name)
    /\ UNCHANGED <<env, timeVars, gameSchedule, toastVars,
                   mounted, authVars, subVars, currentPage, modalVars, letterContent,
                   currentMood, dayVars, canvasVars, viewVars, storeVars>>

\* !cardText.trim()
CardIsEmpty(t) == Falsy(Trim(t))

\* the fields saveCard writes
CardFields(t, c) == [NoFields EXCEPT !.content = t, !.bgColor = c]

\* saveCard, to its await
SaveCard ==
    /\ Interactive /\ currentPage = "creativeStudio"
    /\ IF NotInitialized
       THEN /\ showAppMessage(MsgWaitSave)
            /\ Step("saveCard", "wait")
            /\ UNCHANGED <<writes, issued>>
       ELSE IF CardIsEmpty(cardText)
       THEN /\ showAppMessage(MsgCardEmpty)
            /\ Step("saveCard", "invalid")
            /\ UNCHANGED <<writes, issued>>
       ELSE /\ addDoc("saveCard", "cards", CardFields(cardText, cardBgColor))
            /\ Step("saveCard", "issued")
            /\ UNCHANGED modalVars
    /\ UNCHANGED <<env, timeVars, gameSchedule, toastVars,
                   mounted, authVars, subVars, currentPage, inputVars, viewVars,
                   docs, clock, reads>>

\* saveCard, after its await
SaveCardResume(w) ==
    /\ Settled(w, "saveCard")
    /\ writes' = writes \ {w}
    /\ IF ~mounted
       THEN UNCHANGED <<modalVars, cardText, cardBgColor>>
       ELSE IF w.st = "committed"
       THEN /\ showAppMessage(MsgCardSaved)
            /\ cardText' = EmptyText
            /\ cardBgColor' = White
       ELSE /\ showAppMessage(MsgCardError)
            /\ UNCHANGED <<cardText, cardBgColor>>
    /\ Step("saveCardResume", w.st)
    /\ UNCHANGED <<env, timeVars, gameSchedule, toastVars,
                   mounted, authVars, subVars, currentPage, letterContent,
                   currentMood, dayVars, canvasVars, viewVars, docs, clock, issued, reads>>

(***************************************************************************)
(* Creative Studio: the drawing surface.                                   *)
(***************************************************************************)
\* the drawing effect, deps [drawingColor, drawingSize]: its cleanup takes the
\* previous run's listeners off, and its body puts listeners on the canvas
\* element if there is one, with a fresh isDrawing
DrawingEffect ==
    /\ canvasListeners' = (surface # NULL)
    /\ isDrawing' = FALSE
    /\ isErasing' = FALSE

\* onChange of the color input, onClick of the eraser button
SetDrawingColor(c) ==
    /\ Interactive /\ currentPage = "creativeStudio"
    /\ c \in DrawingColors /\ c # drawingColor
    /\ drawingColor' = c
    /\ DrawingEffect
    /\ Quiet
    /\ UNCHANGED <<env, timeVars, gameSchedule, toastVars,
                   mounted, authVars, subVars, currentPage, modalVars, letterContent,
                   cardText, cardBgColor, currentMood, dayVars, drawingSize, surface,
                   viewVars, storeVars>>

\* onChange of the size slider
SetDrawingSize(n) ==
    /\ Interactive /\ currentPage = "creativeStudio"
    /\ n \in DrawingSizes /\ n # drawingSize
    /\ drawingSize' = n
    /\ DrawingEffect
    /\ Quiet
    /\ UNCHANGED <<env, timeVars, gameSchedule, toastVars,
                   mounted, authVars, subVars, currentPage, modalVars, letterContent,
                   cardText, cardBgColor, currentMood, dayVars, drawingColor, surface,
                   viewVars, storeVars>>

\* ctx.lineTo; ctx.stroke in draw(e): one segment to the pointer, erasing
\* (destination-out) or in the selected color, of the selected width
Drawn(raster, erasing) ==
    Append(raster, [erase |-> erasing, color |-> drawingColor, width |-> drawingSize])

\* startDrawing: its draw(e) strokes a path of one point, which paints
\* nothing, and records the point
StartDrawing ==
    /\ isDrawing' = TRUE
    /\ isErasing' = (drawingColor = Eraser)
    /\ UNCHANGED surface

\* draw
Draw ==
    /\ surface' = IF isDrawing THEN Drawn(surface, isErasing) ELSE surface
    /\ UNCHANGED <<isDrawing, isErasing>>

\* stopDrawing
StopDrawing ==
    /\ isDrawing' = FALSE
    /\ UNCHANGED <<surface, isErasing>>

\* an event on the canvas element runs handler if the effect has attached the
\* listeners to this element, and nothing otherwise
Dispatch(event, handler) ==
    /\ Interactive /\ surface # NULL
    /\ IF canvasListeners THEN handler ELSE UNCHANGED <<surface, isDrawing, isErasing>>
    /\ Step(event, "")
    /\ UNCHANGED <<env, timeVars, gameSchedule, toastVars,
                   mounted, authVars, subVars, currentPage, modalVars, letterContent,
                   cardText, cardBgColor, currentMood, dayVars, drawingColor, drawingSize,
                   canvasListeners, viewVars, storeVars>>

\* mousedown, touchstart
PointerDown == Dispatch("pointerDown", StartDrawing)

\* mousemove, touchmove
PointerMove ==
    /\ surface # NULL /\ canvasListeners /\ isDrawing => Len(surface) < MaxSegs
    /\ Dispatch("pointerMove", Draw)

\* mouseup, mouseout, touchend, touchcancel
PointerUp == Dispatch("pointerUp", StopDrawing)

\* clearCanvas: clearRect over the whole canvas, if there is one
Cleared(raster) == IF raster # NULL THEN BlankSurface ELSE raster

ClearCanvas ==
    /\ Interactive /\ currentPage = "creativeStudio"
    /\ surface' = Cleared(surface)
    /\ Step("clearCanvas", "")
    /\ UNCHANGED <<env, timeVars, gameSchedule, toastVars,
                   mounted, authVars, subVars, currentPage, modalVars, letterContent,
                   cardText, cardBgColor, currentMood, dayVars, drawingColor, drawingSize,
                   canvasListeners, isDrawing, isErasing, viewVars, storeVars>>

\* the fields had saveDrawing cleared the canvas before it read it
DrawingFieldsAfterClear(raster) == [NoFields EXCEPT !.dataUrl = BlankSurface]

\* the fields saveDrawing writes: canvas.toDataURL('image/png')
DrawingFields(raster) == [NoFields EXCEPT !.dataUrl = raster]

\* saveDrawing, to its await
SaveDrawing ==
    /\ Interactive /\ currentPage = "creativeStudio"
    /\ IF NotInitialized
       THEN /\ showAppMessage(MsgWaitSave)
            /\ Step("saveDrawing", "wait")
            /\ UNCHANGED <<writes, issued>>
       ELSE /\ surface # NULL
            /\ addDoc("saveDrawing", "drawings", DrawingFields(surface))
            /\ Step("saveDrawing", "issued")
            /\ UNCHANGED modalVars
    /\ UNCHANGED <<env, timeVars, gameSchedule, toastVars,
                   mounted, authVars, subVars, currentPage, inputVars, viewVars,
                   docs, clock, reads>>

\* saveDrawing, after its await
SaveDrawingResume(w) ==
    /\ Settled(w, "saveDrawing")
    /\ writes' = writes \ {w}
    /\ IF ~mounted
       THEN UNCHANGED <<modalVars, surface>>
       ELSE IF w.st = "committed"
       THEN /\ showAppMessage(MsgDrawingSaved)
            /\ surface' = Cleared(surface)
       ELSE /\ showAppMessage(MsgDrawingError)
            /\ UNCHANGED surface
    /\ Step("saveDrawingResume", w.st)
    /\ UNCHANGED <<env, timeVars, gameSchedule, toastVars,
                   mounted, authVars, subVars, currentPage, letterContent, cardText,
                   cardBgColor, currentMood, dayVars, drawingColor, drawingSize,
                   canvasListeners, isDrawing, isErasing, viewVars, docs, clock, issued,
                   reads>>

(***************************************************************************)
(* Mood tracker.                                                           *)
(***************************************************************************)
\* the fields recordMood writes
MoodFields(mood) == [NoFields EXCEPT !.mood = mood]

\* recordMood(mood), to its await
RecordMood(mood) ==
    /\ Interactive /\ currentPage = "moodTracker" /\ mood \in Moods
    /\ IF NotInitialized
       THEN /\ showAppMessage(MsgWaitMood)
            /\ Step("recordMood", "wait")
            /\ UNCHANGED <<writes, issued>>
       ELSE /\ addDoc("recordMood", "moods", MoodFields(mood))
            /\ Step("recordMood", "issued")
            /\ UNCHANGED modalVars
    /\ UNCHANGED <<env, timeVars, gameSchedule, toastVars,
                   mounted, authVars, subVars, currentPage, inputVars, viewVars,
                   docs, clock, reads>>

\* the indicator had setCurrentMood(mood) been left out
MoodNotShown(mood) == currentMood

\* the indicator after an acknowledged recordMood(mood): setCurrentMood(mood)
MoodShown(mood) == mood

\* recordMood, after its await
RecordMoodResume(w) ==
    /\ Settled(w, "recordMood")
    /\ writes' = writes \ {w}
    /\ IF ~mounted
       THEN UNCHANGED <<modalVars, currentMood>>
       ELSE IF w.st = "committed"
       THEN /\ currentMood' = MoodShown(w.fields.mood)
            /\ showAppMessage(MsgMoodSaved(w.fields.mood))
       ELSE /\ showAppMessage(MsgMoodError)
            /\ UNCHANGED currentMood
    /\ Step("recordMoodResume", w.st)
    /\ UNCHANGED <<env, timeVars, gameSchedule, toastVars,
                   mounted, authVars, subVars, currentPage, letterContent, cardText,
                   cardBgColor, dayVars, canvasVars, viewVars, docs, clock, issued, reads>>

(***************************************************************************)
(* Day counter.                                                            *)
(***************************************************************************)
\* onChange of the date input
SetStartDate(d) ==
    /\ Interactive /\ currentPage = "daysCounter"
    /\ d # startDate
    /\ startDate' = d
    /\ daysKnown' = DaysKnown(d, now)
    /\ Quiet
    /\ UNCHANGED <<env, timeVars, gameSchedule, toastVars,
                   mounted, authVars, subVars, currentPage, modalVars, letterContent,
                   cardText, cardBgColor, currentMood, canvasVars, viewVars, storeVars>>

\* the day-counter page below the Save button: the count when daysKnown > 0,
\* the hint to pick a past date when a date is set and daysKnown is 0, else nothing
DayCounterView(start, days) ==
    IF days > 0 THEN [shows |-> "count", days |-> days]
    ELSE IF start.has /\ days = 0 THEN [shows |-> "pickPastDate", days |-> 0]
    ELSE [shows |-> "unset", days |-> 0]

\* time passes: no state of the component changes with it
Tick ==
    /\ now < Today * DayLength + DayLength - 1 + MaxTicks
    /\ now' = now + 1
    /\ Quiet
    /\ UNCHANGED <<env, tz, gameSchedule, toastVars, mounted, authVars, subVars,
                   currentPage, modalVars, inputVars, viewVars, storeVars>>

(***************************************************************************)
(* Game schedule and the temporary notification.                           *)
(***************************************************************************)
\* showTemporaryNotification(message)
showTemporaryNotification(message) ==
    /\ notificationMessage' = message
    /\ showNotification' = TRUE
    /\ toastTimers' = toastTimers + 1

\* onClick of a game's Notificar-me button
NotifyMe(i) ==
    /\ Interactive /\ currentPage = "gameSchedule"
    /\ i \in 1..Len(gameSchedule)
    /\ toastTimers < MaxToasts
    /\ showTemporaryNotification(Reminder(gameSchedule[i], tz))
    /\ Step("notifyMe", gameSchedule[i].opponent)
    /\ UNCHANGED <<env, timeVars, gameSchedule, mounted, authVars, subVars,
                   currentPage, modalVars, inputVars, viewVars, storeVars>>

\* the callback of a setTimeout of showTemporaryNotification, 3000 ms later
NotificationTimeout ==
    /\ toastTimers > 0
    /\ toastTimers' = toastTimers - 1
    /\ showNotification' = FALSE
    /\ notificationMessage' = NoNotification
    /\ Quiet
    /\ UNCHANGED <<env, timeVars, gameSchedule, mounted, authVars, subVars,
                   currentPage, modalVars, inputVars, viewVars, storeVars>>

(***************************************************************************)
(* Day counter, continued.                                                 *)
(***************************************************************************)
\* the fields saveStartDate writes
StartDateFields(d) == [NoFields EXCEPT !.startDate = d]

\* saveStartDate, to its await
SaveStartDate ==
    /\ Interactive /\ currentPage = "daysCounter"
    /\ IF NotInitialized
       THEN /\ showAppMessage(MsgWaitDate)
            /\ Step("saveStartDate", "wait")
            /\ UNCHANGED <<writes, issued>>
       ELSE IF ~startDate.has
       THEN /\ showAppMessage(MsgDateMissing)
            /\ Step("saveStartDate", "invalid")
            /\ UNCHANGED <<writes, issued>>
       ELSE /\ setDoc("saveStartDate", "daysCounter", StartDateFields(startDate))
            /\ Step("saveStartDate", "issued")
            /\ UNCHANGED modalVars
    /\ UNCHANGED <<env, timeVars, gameSchedule, toastVars,
                   mounted, authVars, subVars, currentPage, inputVars, viewVars,
                   docs, clock, reads>>

\* saveStartDate, after its await
SaveStartDateResume(w) ==
    /\ Settled(w, "saveStartDate")
    /\ writes' = writes \ {w}
    /\ IF ~mounted
       THEN UNCHANGED modalVars
       ELSE IF w.st = "committed"
       THEN showAppMessage(MsgDateSaved)
       ELSE showAppMessage(MsgDateError)
    /\ Step("saveStartDateResume", w.st)
    /\ UNCHANGED <<env, timeVars, gameSchedule, toastVars,
                   mounted, authVars, subVars, currentPage, inputVars, viewVars,
                   docs, clock, issued, reads>>

(***************************************************************************)
(* Photo gallery.                                                          *)
(***************************************************************************)
\* handlePhotoUpload: with a file picked it starts a FileReader and returns
HandlePhotoUpload(files) ==
    /\ Interactive /\ currentPage = "photoGallery"
    /\ files \in {<<>>} \cup {<<f>> : f \in Files}
    /\ IF NotInitialized
       THEN /\ showAppMessage(MsgWaitPhoto)
            /\ Step("handlePhotoUpload", "wait")
            /\ UNCHANGED reads
       ELSE IF files = <<>>
       THEN /\ Step("handlePhotoUpload", "nofile")
            /\ UNCHANGED <<modalVars, reads>>
       ELSE /\ issued + Cardinality(reads) < MaxSaves
            /\ reads' = reads \cup
                  {[n |-> issued + Cardinality(reads) + 1, file |-> files[1], uid |-> userId]}
            /\ Step("handlePhotoUpload", "reading")
            /\ UNCHANGED modalVars
    /\ UNCHANGED <<env, timeVars, gameSchedule, toastVars,
                   mounted, authVars, subVars, currentPage, inputVars, viewVars,
                   docs, clock, writes, issued>>

\* reader.result when onloadend fires: the data URI after a load, null after an
\* error or an abort
ReaderResult(file, outcome) == IF outcome = "load" THEN "data:" \o file ELSE NULL

\* the fields the upload writes
PhotoFields(result) == [NoFields EXCEPT !.photo = result]

\* reader.onloadend, to its await
ReaderLoadEnd(r, outcome) ==
    /\ r \in reads /\ outcome \in {"load", "error"}
    /\ reads' = reads \ {r}
    /\ CanIssue("photos")
    /\ writes' = writes \cup
          {Request(issued + 1, "handlePhotoUpload", "photos", r.uid, issued + 1,
                   PhotoFields(ReaderResult(r.file, outcome)))}
    /\ issued' = issued + 1
    /\ Step("onloadend", outcome)
    /\ UNCHANGED <<env, timeVars, gameSchedule, toastVars,
                   mounted, authVars, subVars, currentPage, modalVars, inputVars,
                   viewVars, docs, clock>>

\* reader.onloadend, after its await
PhotoUploadResume(w) ==
    /\ Settled(w, "handlePhotoUpload")
    /\ writes' = writes \ {w}
    /\ IF ~mounted
       THEN UNCHANGED modalVars
       ELSE IF w.st = "committed"
       THEN showAppMessage(MsgPhotoSaved)
       ELSE showAppMessage(MsgPhotoError)
    /\ Step("handlePhotoUploadResume", w.st)
    /\ UNCHANGED <<env, timeVars, gameSchedule, toastVars,
                   mounted, authVars, subVars, currentPage, inputVars, viewVars,
                   docs, clock, issued, reads>>

(***************************************************************************)
(* Specifications.                                                         *)
(***************************************************************************)
Init == InitWith(Envs)

\* startup and identity
Boot ==
    \/ FirebaseInitEffect
    \/ OnAuthStateChanged
    \/ \E i \in 1..Len(authTasks) : SignInResolve(i)
    \/ \E i \in 1..Len(authTasks) : SignInReject(i)
    \/ \E i \in 1..Len(authTasks) : AuthCallbackResume(i)

Letters ==
    \/ \E t \in LetterInputs : SetLetterContent(t)
    \/ SaveLetter
    \/ \E w \in writes : SaveLetterResume(w)

Cards ==
    \/ \E t \in CardInputs : SetCardText(t)
    \/ \E c \in BgColors : SetCardBgColor(c)
    \/ SaveCard
    \/ \E w \in writes : SaveCardResume(w)

Canvas ==
    \/ \E c \in DrawingColors : SetDrawingColor(c)
    \/ \E n \in DrawingSizes : SetDrawingSize(n)
    \/ PointerDown
    \/ PointerMove
    \/ PointerUp
    \/ ClearCanvas
    \/ SaveDrawing
    \/ \E w \in writes : SaveDrawingResume(w)

MoodTracker ==
    \/ \E m \in PressedMoods : RecordMood(m)
    \/ \E w \in writes : RecordMoodResume(w)

DayCounter ==
    \/ \E d \in DateInputs : SetStartDate(d)
    \/ SaveStartDate
    \/ \E w \in writes : SaveStartDateResume(w)

Gallery ==
    \/ \E f \in {<<>>} \cup {<<x>> : x \in Files} : HandlePhotoUpload(f)
    \/ \E r \in reads, o \in {"load", "error"} : ReaderLoadEnd(r, o)
    \/ \E w \in writes : PhotoUploadResume(w)

NextBoot ==
    \/ Boot
    \/ AuthSessionLost
    \/ Unmount

SpecBoot == Init /\ [][NextBoot]_vars

\* the store settling requests
Settle ==
    \/ \E w \in writes : StoreCommit(w)
    \/ \E w \in writes : StoreReject(w)

\* the store pushing snapshots to the listeners on the resources R
Push(R) == \E s \in dirty : s.res \in R /\ OnSnapshot(s)

\* the store failing a listener on one of the resources R
Fail(R) == \E s \in subs : s.res \in R /\ OnSnapshotError(s)

NextLetters ==
    \/ Boot
    \/ Settle
    \/ Push({"letters"})
    \/ Navigate("creativeStudio")
    \/ Navigate("home")
    \/ CloseMessageModal
    \/ Letters

SpecLetters == InitWith(WidgetEnvs) /\ [][NextLetters]_vars

NextStudio ==
    \/ Boot
    \/ Settle
    \/ Navigate("creativeStudio")
    \/ CloseMessageModal
    \/ Letters
    \/ Cards

SpecStudio == InitWith(WidgetEnvs) /\ [][NextStudio]_vars

NextMood ==
    \/ Boot
    \/ Settle
    \/ Push({"moods"})
    \/ Navigate("moodTracker")
    \/ Navigate("home")
    \/ CloseMessageModal
    \/ MoodTracker

SpecMood == InitWith(WidgetEnvs) /\ [][NextMood]_vars

\* the four saves that change an input field, each with one input the user can enter
NextSaves ==
    \/ Boot
    \/ Settle
    \/ Navigate("creativeStudio")
    \/ Navigate("daysCounter")
    \/ CloseMessageModal
    \/ SetLetterContent(Text(1, 1, 0))
    \/ SaveLetter
    \/ \E w \in writes : SaveLetterResume(w)
    \/ SetCardText(Text(1, 1, 1))
    \/ SetCardBgColor("#336699")
    \/ SaveCard
    \/ \E w \in writes : SaveCardResume(w)
    \/ SetDrawingColor(Eraser)
    \/ PointerDown
    \/ PointerMove
    \/ SaveDrawing
    \/ \E w \in writes : SaveDrawingResume(w)
    \/ SetStartDate(DateOf(10))
    \/ SaveStartDate
    \/ \E w \in writes : SaveStartDateResume(w)

SpecSaves == InitWith(HostedEnvs) /\ [][NextSaves]_vars

\* every save handler on every page, before and after the identity is resolved
NextGuards ==
    \/ Boot
    \/ Settle
    \/ \E p \in Pages : Navigate(p)
    \/ SetLetterContent(Text(1, 1, 0))
    \/ SaveLetter
    \/ \E w \in writes : SaveLetterResume(w)
    \/ SaveCard
    \/ SaveDrawing
    \/ \E w \in writes : SaveDrawingResume(w)
    \/ SaveStartDate
    \/ RecordMood("Feliz")
    \/ \E w \in writes : RecordMoodResume(w)
    \/ HandlePhotoUpload(<<"photo.png">>)
    \/ \E r \in reads : ReaderLoadEnd(r, "load")
    \/ \E w \in writes : PhotoUploadResume(w)

SpecGuards == InitWith(WidgetEnvs) /\ [][NextGuards]_vars

\* the environments whose configuration lacks the API key or the auth domain
\* where the init effect looks for it
ConfigUnusable(e) ==
    IF e.window THEN e.hostCfg # "complete" ELSE ~(e.envKey /\ e.envDomain)

NextConfigError ==
    \/ FirebaseInitEffect
    \/ \E p \in Pages : Navigate(p)
    \/ CloseMessageModal
    \/ SetLetterContent(Text(1, 1, 0))
    \/ SaveLetter
    \/ SaveCard
    \/ SaveDrawing
    \/ SetStartDate(DateOf(10))
    \/ SaveStartDate
    \/ \E m \in PressedMoods : RecordMood(m)
    \/ HandlePhotoUpload(<<"photo.png">>)

SpecConfigError ==
    InitWith({e \in Envs : ConfigUnusable(e) /\ ~e.token /\ ~e.session})
        /\ [][NextConfigError]_vars

\* the day counter at every time of day and in every zone, while time passes
NextDays ==
    \/ FirebaseInitEffect
    \/ Navigate("daysCounter")
    \/ Navigate("home")
    \/ \E k \in DaysAgo : SetStartDate(DateOf(LocalDate(now, tz) - k))
    \/ SetStartDate(NoDate)
    \/ Tick

SpecDays == InitAnyTime(WidgetEnvs) /\ [][NextDays]_vars

\* the day-counter setting: two dates, saves that overlap, the store applying
\* them in any order
NextDayCounter ==
    \/ Boot
    \/ Settle
    \/ Push({"daysCounter"})
    \/ Navigate("daysCounter")
    \/ SetStartDate(DateOf(10))
    \/ SetStartDate(DateOf(20))
    \/ SaveStartDate
    \/ \E w \in writes : SaveStartDateResume(w)

SpecDayCounter == InitWith(WidgetEnvs) /\ [][NextDayCounter]_vars

\* every operation that writes, each with an input that passes its validation
NextWriters ==
    \/ Boot
    \/ Settle
    \/ \E p \in Pages \ {"home", "gameSchedule"} : Navigate(p)
    \/ SetLetterContent(Text(1, 1, 0))
    \/ SaveLetter
    \/ \E w \in writes : SaveLetterResume(w)
    \/ SetCardText(Text(1, 1, 1))
    \/ SaveCard
    \/ \E w \in writes : SaveCardResume(w)
    \/ SaveDrawing
    \/ \E w \in writes : SaveDrawingResume(w)
    \/ RecordMood("Feliz")
    \/ \E w \in writes : RecordMoodResume(w)
    \/ SetStartDate(DateOf(10))
    \/ SaveStartDate
    \/ \E w \in writes : SaveStartDateResume(w)
    \/ HandlePhotoUpload(<<"photo.png">>)
    \/ \E r \in reads : ReaderLoadEnd(r, "load")
    \/ \E w \in writes : PhotoUploadResume(w)

SpecWriters == InitWith(HostedEnvs) /\ [][NextWriters]_vars

\* the card form: typing, picking a color, applying templates, saving
NextCards ==
    \/ Boot
    \/ Settle
    \/ Navigate("creativeStudio")
    \/ \E i \in 1..Len(cardTemplates) : ApplyCardTemplate(cardTemplates[i])
    \/ Cards

SpecCards == InitWith(HostedEnvs) /\ [][NextCards]_vars

\* letters at the length limit
NextLongLetters ==
    \/ Boot
    \/ Settle
    \/ Push({"letters"})
    \/ Navigate("creativeStudio")
    \/ \E t \in LongLetterEntries : SetLetterContent(t)
    \/ SaveLetter
    \/ \E w \in writes : SaveLetterResume(w)

SpecLongLetters == InitWith(HostedEnvs) /\ [][NextLongLetters]_vars

\* the drawing surface: pointer events, tools, Clear and Save
NextCanvas ==
    \/ Boot
    \/ Settle
    \/ Navigate("creativeStudio")
    \/ Navigate("home")
    \/ Canvas

SpecCanvas == InitWith(HostedEnvs) /\ [][NextCanvas]_vars

\* the letters of a user whose letters listener can fail
NextReadErrors ==
    \/ Boot
    \/ Settle
    \/ Push({"letters"})
    \/ Fail({"letters"})
    \/ Navigate("creativeStudio")
    \/ Navigate("home")
    \/ CloseMessageModal
    \/ SetLetterContent(Text(1, 1, 0))
    \/ SaveLetter
    \/ \E w \in writes : SaveLetterResume(w)

SpecReadErrors == InitWith(HostedEnvs) /\ [][NextReadErrors]_vars

\* the game schedule, loaded at every time of day in every zone
NextSchedule ==
    \/ FirebaseInitEffect
    \/ \E p \in Pages : Navigate(p)
    \/ \E i \in 1..Len(gameSchedule) : NotifyMe(i)
    \/ NotificationTimeout
    \/ Tick

SpecSchedule == InitAnyTime(HostedEnvs) /\ [][NextSchedule]_vars

\* the gallery: a file picked or none, the read ending in a load or an error
NextGallery ==
    \/ Boot
    \/ Settle
    \/ Push({"photos"})
    \/ Navigate("photoGallery")
    \/ CloseMessageModal
    \/ Gallery

SpecGallery == InitWith(WidgetEnvs) /\ [][NextGallery]_vars

(***************************************************************************)
(* Properties.                                                             *)
(***************************************************************************)
\* a text with no character other than blanks: empty or whitespace-only
IsBlank(t) == t.body = 0

\* the step is a press of the save button of op
Pressed(op) == last'.op = op

\* the step neither issues a request nor changes what the store holds
NothingWritten == writes' = writes /\ issued' = issued /\ docs' = docs

\* the step opens the message dialog with message
Opens(message) == showMessageModal' /\ modalContent' = message

\* C1 as stated: in every reachable state, saveLetter on an empty or
\* whitespace-only letter and saveCard on an empty or whitespace-only card text
\* issue no create request, leave the stored collections unchanged and open the
\* dialog with the validation message.
C1_BlankSaveShowsValidation ==
    [][/\ Pressed("saveLetter") /\ IsBlank(letterContent)
            => NothingWritten /\ Opens(MsgLetterEmpty)
       /\ Pressed("saveCard") /\ IsBlank(cardText)
            => NothingWritten /\ Opens(MsgCardEmpty)]_vars

\* C1 amended: saveLetter on an empty or whitespace-only letter and saveCard on
\* an empty or whitespace-only card text never issue a create request and leave
\* the stored collections unchanged; they open the dialog with the validation
\* message once the identity and the store handle are set, and with the
\* wait-for-initialization message before that.
C1_BlankSaveNeverWrites ==
    [][/\ Pressed("saveLetter") /\ IsBlank(letterContent)
            => /\ NothingWritten
               /\ Opens(IF NotInitialized THEN MsgWaitSave ELSE MsgLetterEmpty)
       /\ Pressed("saveCard") /\ IsBlank(cardText)
            => /\ NothingWritten
               /\ Opens(IF NotInitialized THEN MsgWaitSave ELSE MsgCardEmpty)]_vars

\* C1 happens: with the identity set, a whitespace-only card text was refused
\* after a whitespace-only letter had been typed, and nothing is being written
C1_BlankCardRefused ==
    /\ last = [op |-> "saveCard", out |-> "invalid"]
    /\ userId # NULL /\ db # NULL
    /\ cardText = Text(1, 0, 0) /\ letterContent = Text(1, 0, 0)
    /\ showMessageModal /\ modalContent = MsgCardEmpty
    /\ writes = {} /\ docs = {}

\* the letters the store holds for the identity uid
StoredLetters(uid) == {d \in docs : d.uid = uid /\ d.res = "letters"}

\* the letters list of the view holds exactly the stored letters of uid, each once
ViewShows(uid) ==
    /\ Len(letters) = Cardinality(StoredLetters(uid))
    /\ {<<letters[i].id, letters[i].fields.content>> : i \in 1..Len(letters)}
           = {<<d.id, d.fields.content>> : d \in StoredLetters(uid)}

\* the step issues exactly one create request on the letters of the current
\* identity, carrying text
IssuesLetter(text) ==
    \E r \in writes' :
        /\ r \notin writes /\ writes' = writes \cup {r}
        /\ r.op = "saveLetter" /\ r.res = "letters" /\ r.uid = userId /\ r.st = "sent"
        /\ r.fields.content = text

\* the step is the store acknowledging the letter request w
Acknowledges(w) ==
    /\ w \in writes /\ w.op = "saveLetter" /\ w.st = "sent"
    /\ [w EXCEPT !.st = "committed"] \in writes'

\* the step adds exactly one letter to the store, with the content of w
AddsLetter(w) ==
    \E d \in docs' :
        /\ d \notin docs /\ docs' = docs \cup {d}
        /\ d.res = "letters" /\ d.uid = w.uid /\ d.fields.content = w.fields.content
        /\ Cardinality(StoredLetters(w.uid)') = Cardinality(StoredLetters(w.uid)) + 1

\* the letters listener of the current run of the subscription effect has
\* delivered every update
LettersDelivered ==
    \E s \in subs : s.res = "letters" /\ s.uid = userId /\ s \notin dirty

\* C2 as stated, at the press: with the identity and the store handle set,
\* saveLetter on any non-empty text of at most 1000 characters, text of
\* whitespace only included, issues the create request whose record the
\* subscription delivers.
C2_AnyNonEmptyLetterSaved ==
    [][Pressed("saveLetter") /\ ~NotInitialized
          /\ TextLen(letterContent) \in 1..LetterMaxLength
            => IssuesLetter(letterContent)]_vars

\* C2 amended: for every letter text of at most 1000 characters that holds a
\* non-whitespace character, with the identity and the store handle set, one
\* saveLetter issues exactly one create request carrying the text as typed; its
\* acknowledgement adds exactly one record to the stored letters, with that
\* content; and once the subscription update is delivered the letters list holds
\* exactly the stored letters.
C2_LetterSavedAsTyped ==
    [][/\ Pressed("saveLetter") /\ ~NotInitialized /\ ~IsBlank(letterContent)
              /\ TextLen(letterContent) <= LetterMaxLength
            => IssuesLetter(letterContent)
       /\ \A w \in writes : Acknowledges(w) => AddsLetter(w)
       /\ LettersDelivered' => ViewShows(userId)']_vars

\* C2 happens: two letters with leading whitespace around their text were
\* saved, acknowledged and delivered, and the list shows both as typed
C2_LettersListed ==
    /\ Len(letters) = 2
    /\ \A i \in 1..2 : letters[i].fields.content = Text(1, 1, 0)
    /\ LettersDelivered /\ ViewShows(userId)
    /\ writes = {}

\* the step is the handler of op resuming after its request was refused
FailedResume(op) == \E w \in writes : w \notin writes' /\ w.op = op /\ w.st = "rejected"

\* the step is the handler of op resuming after its request was acknowledged
AckedResume(op) == \E w \in writes : w \notin writes' /\ w.op = op /\ w.st = "committed"

\* the step leaves every input of the four forms as it is
InputsKept ==
    /\ letterContent' = letterContent
    /\ cardText' = cardText /\ cardBgColor' = cardBgColor
    /\ surface' = surface
    /\ startDate' = startDate

\* a canvas with something drawn on it, a canvas with nothing on it
HasSegments(raster) == raster # NULL /\ Len(raster) > 0
IsBlankCanvas(raster) == raster # NULL /\ Len(raster) = 0

C4_FallbackAfterRejectedSignIn ==
    (mounted /\ authLosses = 0 /\ \E i \in 1..Len(authTasks) : authTasks[i].st = "threw")
        => (isAuthReady /\ userId = RandomUid)

\* the init effect ended on a configuration error
ConfigErrorReported == initOutcome \in {"missing", "incomplete"}

\* the configuration taken from the host when it injects one and from the
\* environment values otherwise supplies both the API key and the auth domain
ResolvedSupplies(e) ==
    IF e.hostCfg # "absent" THEN e.hostCfg = "complete" ELSE e.envKey /\ e.envDomain

\* C6 as stated: for every combination of host-injected configuration and
\* environment values, startup reports a configuration error only when the
\* configuration resolved host first, environment second, lacks the API key or
\* the auth domain.
C6_ErrorOnlyWhenNeitherSupplies == ConfigErrorReported => ~ResolvedSupplies(env)

\* every page other than the current one can be navigated to
NavigationWorks == \A p \in Pages \ {currentPage} : ENABLED Navigate(p)

\* startup has never initialized the store nor an auth listener, and nothing
\* was subscribed, requested or read
NeverInitialized ==
    /\ db = NULL /\ ~isAuthReady /\ userId = NULL
    /\ ~authListener /\ authQ = <<>> /\ authTasks = <<>>
    /\ subs = {} /\ subGen = 0
    /\ issued = 0 /\ writes = {} /\ reads = {} /\ docs = {}

\* the wait-for-initialization message of each handler
WaitMessage(op) ==
    CASE op = "recordMood" -> MsgWaitMood
      [] op = "saveStartDate" -> MsgWaitDate
      [] op = "handlePhotoUpload" -> MsgWaitPhoto
      [] OTHER -> MsgWaitSave

SaveOps ==
    {"saveLetter", "saveCard", "saveDrawing", "recordMood", "saveStartDate",
     "handlePhotoUpload"}

\* C5: when the configuration the init effect resolved is missing or lacks the
\* API key or the auth domain, the effect opens the message dialog; the store
\* handle stays null, the ready flag false, no auth listener and no subscription
\* is created; every other page can still be navigated to, and every save handler
\* only opens its wait-for-initialization message, issuing nothing.
C5_ConfigErrorStaysInteractive ==
    /\ [](NeverInitialized /\ (initOutcome # "none" => NavigationWorks))
    /\ [][/\ initOutcome = "none" /\ initOutcome' # "none"
               => /\ initOutcome' \in {"missing", "incomplete", "threw"}
                  /\ showMessageModal'
                  /\ modalContent' \in {MsgConfigMissing, MsgConfigIncomplete, MsgInitError}
          /\ \A op \in SaveOps :
                Pressed(op) => /\ NothingWritten /\ reads' = reads
                               /\ Opens(WaitMessage(op))]_vars

\* C5 happens: in a browser that was given no host configuration, startup
\* reported the incomplete configuration, the user closed the dialog, went to
\* the mood tracker and pressed a mood, and got the wait message
C5_MoodPressedAfterConfigError ==
    /\ initOutcome = "incomplete" /\ env.window /\ env.hostCfg = "absent"
    /\ currentPage = "moodTracker"
    /\ last = [op |-> "recordMood", out |-> "wait"]
    /\ showMessageModal /\ modalContent = MsgWaitMood
    /\ db = NULL /\ subs = {} /\ writes = {}

\* identity resolution has completed
IdentityResolved == isAuthReady /\ userId # NULL

\* C7: no subscription is active and no create or overwrite request has been
\* issued unless the ready flag is true and the identity is non-null; a save
\* pressed before that issues nothing and only opens its
\* wait-for-initialization message.
C7_NoStoreAccessBeforeReady ==
    /\ []((subs # {} \/ issued > 0 \/ writes # {} \/ docs # {}) => IdentityResolved)
    /\ [][\A op \in SaveOps :
              Pressed(op) /\ ~IdentityResolved
                  => /\ NothingWritten /\ reads' = reads /\ subs' = subs
                     /\ Opens(WaitMessage(op))]_vars

\* C7 happens: the store handle is set and the sign-in is still awaited when
\* the user presses Save on the drawing, and only the wait message opens
C7_SavePressedWhileSigningIn ==
    /\ db # NULL /\ ~isAuthReady /\ userId = NULL
    /\ \E i \in 1..Len(authTasks) : authTasks[i].st = "awaiting"
    /\ last = [op |-> "saveDrawing", out |-> "wait"]
    /\ showMessageModal /\ modalContent = MsgWaitSave
    /\ subs = {} /\ issued = 0 /\ writes = {}

\* a dependency of the subscription effect changes in the step
DepsChange == <<isAuthReady, userId, db>>' # <<isAuthReady, userId, db>>

\* C8: every active listener is scoped to the current identity, there is at
\* most one per resource, and listeners come six at a time, one per resource;
\* when the identity, the store handle or the ready flag changes, or the
\* component unmounts, none of the listeners established before is active after.
C8_ListenersScopedAndCancelled ==
    /\ [](/\ \A s \in subs : s.uid = userId
          /\ \A s, t \in subs : s.res = t.res => s = t
          /\ subs # {} => {s.res : s \in subs} = Resources)
    /\ [][(DepsChange \/ (mounted /\ ~mounted')) => subs \cap subs' = {}]_vars

\* C8 happens: after the session was lost and a second anonymous identity was
\* signed in, the six listeners are those of the second run of the effect
C8_ResubscribedForNewIdentity ==
    /\ authLosses = 1 /\ subGen = 2
    /\ Cardinality(subs) = 6
    /\ \A s \in subs : s.gen = 2 /\ s.uid = userId

\* C9: the mood history list of the view is ordered by timestamp, newest first.
C9_MoodHistoryNewestFirst ==
    \A i, j \in 1..Len(moods) : i < j => moods[i].ts >= moods[j].ts

\* C9 happens: two moods were pressed and acknowledged in the opposite order,
\* and the list shows the one acknowledged last on top
C9_TwoMoodsListed ==
    /\ Len(moods) = 2
    /\ moods[1].ts > moods[2].ts /\ moods[1].id < moods[2].id
    /\ moods[1].fields.mood # moods[2].fields.mood

\* a mood entry with the label of the request w is stored under w's identity
MoodRecorded(w, D) ==
    \E d \in D : d.res = "moods" /\ d.uid = w.uid /\ d.id = w.id
                  /\ d.fields.mood = w.fields.mood

\* C10 as stated, at the end of the handler: every press of a mood button with
\* the identity and the store handle set has recorded an entry with the
\* button's label and set the indicator to it; and the indicator changes in no
\* other step than one of the handler of a press.
C10_EveryPressRecordsAndShows ==
    [][/\ \A w \in writes :
             (mounted /\ Settled(w, "recordMood") /\ w \notin writes')
                 => (currentMood' = w.fields.mood /\ MoodRecorded(w, docs'))
       /\ currentMood' # currentMood
             => Pressed("recordMood") \/ Pressed("recordMoodResume")]_vars

\* C10 amended: every press of a mood button with the identity and the store
\* handle set issues one create request carrying the button's label and leaves
\* the indicator as it is; when the store acknowledges the request one entry
\* with that label is added, and the handler then sets the indicator to the
\* label; when the store refuses it no entry is added and the handler leaves the
\* indicator as it is and opens the failure message; the indicator changes at
\* no other step than the handler resuming on an acknowledged request.
C10_AcknowledgedPressRecordsAndShows ==
    [][/\ \A m \in Moods :
             (RecordMood(m) /\ ~NotInitialized)
                 => /\ \E r \in writes' :
                          /\ r \notin writes /\ writes' = writes \cup {r}
                          /\ r.res = "moods" /\ r.uid = userId /\ r.fields.mood = m
                    /\ currentMood' = currentMood /\ docs' = docs
       /\ \A w \in writes :
             w.op = "recordMood" /\ w.st = "sent"
                 => /\ [w EXCEPT !.st = "committed"] \in writes'
                         => /\ ~MoodRecorded(w, docs) /\ MoodRecorded(w, docs')
                            /\ Cardinality(docs') = Cardinality(docs) + 1
                            /\ currentMood' = currentMood
                    /\ [w EXCEPT !.st = "rejected"] \in writes' => docs' = docs
       /\ \A w \in writes :
             (mounted /\ Settled(w, "recordMood") /\ w \notin writes')
                 => IF w.st = "committed"
                    THEN /\ currentMood' = w.fields.mood /\ MoodRecorded(w, docs')
                         /\ Opens(MsgMoodSaved(w.fields.mood))
                    ELSE /\ currentMood' = currentMood /\ ~MoodRecorded(w, docs')
                         /\ Opens(MsgMoodError)
       /\ currentMood' # currentMood => AckedResume("recordMood")]_vars

\* C10 happens: Feliz then Triste were pressed, both were acknowledged, and the
\* indicator shows the label of the handler that resumed last
C10_SecondMoodShown ==
    /\ last = [op |-> "recordMoodResume", out |-> "committed"]
    /\ currentMood = "Triste"
    /\ \E d, e \in docs :
          /\ d.res = "moods" /\ d.fields.mood = "Feliz"
          /\ e.res = "moods" /\ e.fields.mood = "Triste" /\ e.id > d.id
    /\ writes = {}

(***************************************************************************)
(* The day counter.                                                        *)
(***************************************************************************)
\* the daysKnown effect runs in this step
DaysComputed == startDate' # startDate

\* n is the ceiling of the elapsed time, in days
IsCeilingOfDays(n, elapsed) ==
    /\ n * DayLength >= elapsed
    /\ (n - 1) * DayLength < elapsed

\* C11: whenever the day count is computed for a start date D at an instant
\* T >= D, it is the ceiling of T - D in days; and while no start date is set
\* the count is 0 and the page shows neither a count nor the hint
C11_DaysAreCeilingOfElapsed ==
    /\ [](~startDate.has =>
            /\ daysKnown = 0
            /\ DayCounterView(startDate, daysKnown).shows = "unset")
    /\ [][DaysComputed /\ startDate'.has /\ now' >= ParseDate(startDate'.day) =>
            IsCeilingOfDays(daysKnown', now' - ParseDate(startDate'.day))]_vars

\* a part of a day has rounded up: the date of yesterday counts two days
C11_PartialDayRoundedUp ==
    /\ startDate.has
    /\ LocalDate(now, tz) - startDate.day = 1
    /\ daysKnown = 2
    /\ DayCounterView(startDate, daysKnown).shows = "count"

\* C12: whenever the day count is computed for the date 10 days before the
\* local date, at any time of day, the page shows a count of 10 days
C12_TenDaysBeforeShowsTen ==
    [][DaysComputed /\ startDate'.has /\ LocalDate(now', tz') - startDate'.day = 10 =>
        DayCounterView(startDate', daysKnown') = [shows |-> "count", days |-> 10]]_vars

\* the day-counter documents the store holds for uid
DayCounterDocs(D, uid) == {d \in D : d.res = "daysCounter" /\ d.uid = uid}

\* the step is the store applying the saveStartDate request w
AppliesStartDate(w) ==
    /\ w \in writes /\ w.op = "saveStartDate" /\ w.st = "sent"
    /\ [w EXCEPT !.st = "committed"] \in writes'

\* C13: the store never holds more than one day-counter document of a user, and
\* the one it holds is at the fixed key; the store applying a saveStartDate
\* request leaves exactly one document, with that request's date, and the
\* day-counter documents change in no other step: so when every request has
\* been answered the date stored is that of the save applied last
C13_OneDayCounterDocument ==
    /\ [](\A d, e \in docs :
            d.res = "daysCounter" =>
                /\ d.id = DataKey
                /\ (e.res = "daysCounter" /\ e.uid = d.uid => e = d))
    /\ [][/\ \A w \in writes :
                AppliesStartDate(w) =>
                    /\ Cardinality(DayCounterDocs(docs', w.uid)) = 1
                    /\ \A d \in DayCounterDocs(docs', w.uid) :
                          d.id = DataKey /\ d.fields.startDate = w.fields.startDate
          /\ {d \in docs' : d.res = "daysCounter"} # {d \in docs : d.res = "daysCounter"}
                => \E w \in writes : AppliesStartDate(w)]_vars

\* two saves overlapped and the store applied the first one last: the stored
\* date is the first one's, not the one saved last
C13_EarlierSaveAppliedLast ==
    \E w1, w2 \in writes :
        /\ w1.op = "saveStartDate" /\ w2.op = "saveStartDate"
        /\ w1.n < w2.n /\ w1.st = "committed" /\ w2.st = "committed"
        /\ w1.fields.startDate # w2.fields.startDate
        /\ \E d \in docs : /\ DayCounterDocs(docs, w1.uid) = {d}
                            /\ d.ts = 2
                            /\ d.fields.startDate = w1.fields.startDate

(***************************************************************************)
(* The store only grows.                                                   *)
(***************************************************************************)
\* C14: every step keeps every stored drawing, letter, card, mood entry and
\* photo as it is, fields and timestamp; a document that a step takes from the
\* store is a day-counter document, and the step puts another at its key
C14_CollectionsOnlyGrow ==
    [][/\ \A d \in docs : d.res \in Collections => d \in docs'
       /\ \A d \in docs \ docs' :
             /\ d.res = "daysCounter"
             /\ \E e \in docs' \ docs :
                   e.res = "daysCounter" /\ e.uid = d.uid /\ e.id = d.id]_vars

\* the store holds two records of one collection, the older one as it was
\* written, beside a handler still waiting for its acknowledgement
C14_SecondRecordBesideFirst ==
    \E d, e \in docs :
        /\ d.res \in Collections /\ e.res = d.res /\ e.uid = d.uid
        /\ d.ts = 1 /\ e.ts = 2 /\ d.id # e.id
        /\ \E w \in writes : w.id = e.id /\ w.st = "committed"

(***************************************************************************)
(* Card templates.                                                         *)
(***************************************************************************)
\* C15: whatever the card text and color were, a press of a template button
\* leaves the card text and the background color equal to that template's
C15_TemplateReplacesCard ==
    [][Pressed("applyCardTemplate") =>
        \E i \in 1..Len(cardTemplates) :
            /\ cardTemplates[i].name = last'.out
            /\ cardText' = cardTemplates[i].text
            /\ cardBgColor' = cardTemplates[i].bgColor]_vars

\* the first template was applied, its text replaced by hand and the card
\* sent; the second template was then applied over the edited card
C15_SecondTemplateOverEditedCard ==
    /\ last = [op |-> "applyCardTemplate", out |-> "Campo"]
    /\ cardText = cardTemplates[4].text /\ cardBgColor = cardTemplates[4].bgColor
    /\ \E w \in writes :
          /\ w.op = "saveCard" /\ w.st = "sent"
          /\ w.fields.bgColor = cardTemplates[2].bgColor
          /\ w.fields.content = Text(1, 1, 1)

(***************************************************************************)
(* The length of a letter.                                                 *)
(***************************************************************************)
\* C16: no stored letter and no letter request is longer than 1000 characters,
\* whatever the user tried to enter; and a press of Save that passes the
\* checks sends the text of the field as it is, blanks at both ends included
C16_NoLetterOverLimit ==
    /\ [](/\ TextLen(letterContent) <= LetterMaxLength
          /\ \A d \in docs :
                d.res = "letters" => TextLen(d.fields.content) <= LetterMaxLength
          /\ \A w \in writes :
                w.res = "letters" => TextLen(w.fields.content) <= LetterMaxLength)
    /\ [][/\ Pressed("saveLetter") /\ last'.out = "issued" => IssuesLetter(letterContent)
          /\ \A w \in writes : Acknowledges(w) => AddsLetter(w)]_vars

\* the user entered 1001 characters with blanks at both ends: the letter
\* stored is the first 1000 of them, the blanks it has kept
C16_LongLetterStoredCut ==
    \E d \in docs :
        /\ d.res = "letters"
        /\ d.fields.content = Text(2, LetterMaxLength - 3, 1)
        /\ TextLen(d.fields.content) = LetterMaxLength

(***************************************************************************)
(* Saving and clearing the drawing.                                        *)
(***************************************************************************)
\* the step is the store applying the drawing request w
AppliesDrawing(w) ==
    /\ w \in writes /\ w.op = "saveDrawing" /\ w.st = "sent"
    /\ [w EXCEPT !.st = "committed"] \in writes'

\* C17: a press of Save that passes the checks sends the surface as it is at
\* the press and leaves the surface alone; the store records what was sent,
\* whatever was drawn or cleared since; the handler clears the surface when it
\* resumes on an acknowledged write and leaves it alone when it resumes on a
\* refused one; a press of Clear empties the surface and writes nothing; and
\* a surface with something on it is emptied in no other step
C17_SaveSendsThenClears ==
    [][/\ Pressed("saveDrawing") /\ last'.out = "issued" =>
             /\ surface' = surface
             /\ \E r \in writes' :
                   /\ r \notin writes /\ writes' = writes \cup {r}
                   /\ r.op = "saveDrawing" /\ r.res = "drawings" /\ r.st = "sent"
                   /\ r.fields.dataUrl = surface
       /\ \A w \in writes : AppliesDrawing(w) =>
             \E d \in docs' \ docs :
                 d.res = "drawings" /\ d.id = w.id /\ d.fields.dataUrl = w.fields.dataUrl
       /\ AckedResume("saveDrawing") /\ surface # NULL => IsBlankCanvas(surface')
       /\ FailedResume("saveDrawing") => surface' = surface
       /\ Pressed("clearCanvas") => IsBlankCanvas(surface') /\ NothingWritten
       /\ HasSegments(surface) /\ IsBlankCanvas(surface') =>
             Pressed("clearCanvas") \/ AckedResume("saveDrawing")]_vars

\* the store holds a drawing with a stroke on it, and the handler, back on the
\* acknowledgement, has just left the surface empty
C17_ClearedAfterAcknowledgement ==
    /\ last = [op |-> "saveDrawingResume", out |-> "committed"]
    /\ IsBlankCanvas(surface)
    /\ \E d \in docs : d.res = "drawings" /\ HasSegments(d.fields.dataUrl)

(***************************************************************************)
(* The pointer on the drawing surface.                                     *)
(***************************************************************************)
\* the segment a move draws with the tool selected
SegmentOfTool ==
    [erase |-> drawingColor = Eraser, color |-> drawingColor, width |-> drawingSize]

\* C18: on the canvas, a pointer-down leaves the surface in Drawing; a
\* pointer-move in Drawing appends one segment, erasing if the eraser is
\* selected and in the selected color otherwise; a pointer-up, a leave, a
\* touch-end or a touch-cancel leaves it in Idle; a pointer-move in Idle
\* leaves the raster as it is
C18_PointerDrivesTwoStates ==
    [][/\ Pressed("pointerDown") => isDrawing' /\ surface' = surface
       /\ Pressed("pointerMove") /\ isDrawing =>
             surface' = Append(surface, SegmentOfTool) /\ isDrawing'
       /\ Pressed("pointerMove") /\ ~isDrawing => surface' = surface /\ ~isDrawing'
       /\ Pressed("pointerUp") => ~isDrawing' /\ surface' = surface]_vars

(***************************************************************************)
(* A listener that fails.                                                  *)
(***************************************************************************)
\* the step is the error callback of the letters listener
LettersReadError == Pressed("onSnapshotError") /\ last'.out = "letters"

\* the page takes the user's actions: navigation and, in the Creative Studio,
\* typing a letter and pressing Save
AcceptsUserActions ==
    /\ ENABLED (\E p \in Pages : Navigate(p))
    /\ currentPage = "creativeStudio" =>
          /\ ENABLED (\E t \in LetterInputs : SetLetterContent(t))
          /\ issued < MaxWrites => ENABLED SaveLetter

\* C19 as stated: when the letters listener reports an error nothing is shown
\* to the user, the letters list shows its 'none yet' line, and the page goes
\* on taking the user's actions
C19_ReadErrorShowsNoneYet ==
    /\ [](last.op = "onSnapshotError" => AcceptsUserActions)
    /\ [][LettersReadError =>
            /\ UNCHANGED modalVars
            /\ ListView(letters').shows = "noneYet"]_vars

\* C19 amended: when the letters listener reports an error nothing is shown to
\* the user and nothing of the page changes: the letters list keeps showing
\* what the last snapshot delivered, which is the 'none yet' line when none was
\* delivered or the last one held no letter; and the page goes on taking the
\* user's actions
C19_ReadErrorKeepsView ==
    /\ [](last.op = "onSnapshotError" => AcceptsUserActions)
    /\ [][LettersReadError =>
            /\ UNCHANGED <<modalVars, inputVars, viewVars, currentPage, storeVars>>
            /\ ListView(letters') = ListView(letters)
            /\ (Len(letters) = 0 => ListView(letters').shows = "noneYet")]_vars

\* the listener failed after it had delivered a letter: the list still shows it
C19_ListKeptAfterReadError ==
    /\ last = [op |-> "onSnapshotError", out |-> "letters"]
    /\ ListView(letters).shows = "items"
    /\ \A s \in subs : s.res # "letters"

(***************************************************************************)
(* The game schedule.                                                      *)
(***************************************************************************)
\* the step is the mount flush, in which fetchGameSchedule runs
ScheduleLoads == initOutcome = "none" /\ initOutcome' # "none"

\* C20: the load leaves three fixtures in the schedule, dated 2, 5 and 10
\* calendar days after the local date of the load, at every time of day and in
\* every zone; and no step after the load changes the schedule
C20_FixturesDatedFromToday ==
    [][/\ ScheduleLoads =>
             /\ Len(gameSchedule') = 3
             /\ gameSchedule'[1].date = LocalDate(now, tz) + 2
             /\ gameSchedule'[2].date = LocalDate(now, tz) + 5
             /\ gameSchedule'[3].date = LocalDate(now, tz) + 10
       /\ ~ScheduleLoads => gameSchedule' = gameSchedule]_vars

(***************************************************************************)
(* The order in which the identity is resolved.                            *)
(***************************************************************************)
\* the sign-ins attempted so far, by kind
Attempted == {authTasks[i].kind : i \in 1..Len(authTasks)}

\* the step is the listener callback called with no user
CalledWithoutUser == mounted' /\ authQ # <<>> /\ Head(authQ) = NULL /\ authQ' = Tail(authQ)

\* C21: at startup, in a browser, before the session is ever lost: with a
\* session from before no sign-in is attempted and the identity is the
\* session's; without one, the listener called with no user attempts exactly
\* one sign-in, the token exchange if the host supplied a token and the
\* anonymous sign-in otherwise, and no other sign-in is attempted
C21_SessionThenTokenThenAnonymous ==
    /\ [](env.window /\ authLosses = 0 =>
            /\ Len(authTasks) <= 1
            /\ env.session => authTasks = <<>> /\ userId \in {NULL, SessionUid}
            /\ ~env.session /\ env.token => Attempted \subseteq {"token"}
            /\ ~env.session /\ ~env.token => Attempted \subseteq {"anonymous"})
    /\ [][env.window /\ authLosses = 0 /\ CalledWithoutUser =>
            /\ ~env.session
            /\ Len(authTasks') = 1
            /\ authTasks'[1].kind = (IF env.token THEN "token" ELSE "anonymous")]_vars

\* the host supplied a token and no session existed: the one sign-in attempted
\* was the token exchange, and the identity is the token's
C21_TokenExchanged ==
    /\ env.window /\ env.token /\ ~env.session /\ authLosses = 0
    /\ Len(authTasks) = 1 /\ authTasks[1].kind = "token" /\ authTasks[1].st = "done"
    /\ userId = TokenUid /\ isAuthReady

(***************************************************************************)
(* The identity over the session.                                          *)
(***************************************************************************)
\* C22 as stated: once the identity is set, no step changes it
C22_IdentityNeverChanges ==
    [][userId # NULL => userId' = userId]_vars

\* C22 amended: once the identity is set it is never unset, and no step
\* changes it as long as the provider has not dropped the session
C22_IdentityChangesOnlyAfterSessionLoss ==
    [][userId # NULL =>
         /\ userId' # NULL
         /\ authLosses' = 0 => userId' = userId]_vars

\* the provider dropped the first anonymous session and the callback signed in
\* again: the identity is the second anonymous user's
C22_SecondAnonymousIdentity ==
    /\ authLosses = 1 /\ isAuthReady
    /\ userId = AnonUid(2) /\ currentUser = AnonUid(2)
    /\ \A i \in 1..Len(authTasks) : authTasks[i].st = "done"

(***************************************************************************)
(* The date the count is computed from.                                    *)
(***************************************************************************)
\* the step is the user picking a date in the input
PicksDate == startDate' # startDate /\ dirty' = dirty

\* the date of the day-counter document the store holds for uid
StoredStartDate(uid) ==
    IF DayCounterDocs(docs, uid) = {} THEN NoDate
    ELSE (CHOOSE d \in DayCounterDocs(docs, uid) : TRUE).fields.startDate

\* n is the count of the date d at the instant t
IsCountOf(n, d, t) ==
    IF d.has THEN IsCeilingOfDays(n, Abs(t - ParseDate(d.day))) ELSE n = 0

C24_DrawsOnEveryDisplay ==
    [][/\ Pressed("pointerDown") => isDrawing'
       /\ Pressed("pointerMove") /\ last.op = "pointerDown" =>
             /\ HasSegments(surface')
             /\ Len(surface') = Len(surface) + 1]_vars

(***************************************************************************)
(* One request for each press.                                             *)
(***************************************************************************)
\* the requests the step issues
NewRequests == {w \in writes' : \A v \in writes : v.n # w.n}

\* the step issues exactly one request, of op on res, and leaves those awaited
\* as they are
IssuesOne(op, res) ==
    /\ Cardinality(NewRequests) = 1
    /\ \A w \in NewRequests : w.op = op /\ w.res = res /\ w.st = "sent"
    /\ writes \subseteq writes'
    /\ issued' = issued + 1

\* the handlers that write straight from a press
WritingPresses == {"saveLetter", "saveCard", "saveDrawing", "recordMood", "saveStartDate"}

DataUris == {ReaderResult(f, "load") : f \in Files}

\* C26: a photo request is issued only by the end of a read, every photo
\* request and every stored photo carries the data URI of the picked file,
\* whether the read ended in a load or in an error, and picking no file
\* starts no read and issues no request
C26_PhotoIsDataUriOfFile ==
    /\ [](/\ \A w \in writes : w.res = "photos" => w.fields.photo \in DataUris
          /\ \A d \in docs : d.res = "photos" => d.fields.photo \in DataUris)
    /\ [][/\ (\E w \in NewRequests : w.res = "photos") => Pressed("onloadend")
          /\ Pressed("handlePhotoUpload") => writes' = writes /\ docs' = docs
          /\ Pressed("handlePhotoUpload") /\ last'.out = "nofile"
                => reads' = reads]_vars

(***************************************************************************)
(* Text typed while a save is awaited.                                     *)
(***************************************************************************)
\* the field after the acknowledgement had it cleared only the text it saved
ClearsOnlySaved(field, saved) == IF field = saved THEN EmptyText ELSE field

\* C27: the request saveLetter or saveCard issues carries the content of the
\* field at the press, and when the handler resumes after the acknowledgement
\* a text typed into the field since the press is still in the field: the
\* field is emptied only if it still holds the text that was saved
C27_TypedWhilePendingIsKept ==
    [][/\ Pressed("saveLetter") /\ NewRequests # {} =>
             \A w \in NewRequests : w.fields.content = letterContent
       /\ Pressed("saveCard") /\ NewRequests # {} =>
             \A w \in NewRequests : w.fields.content = cardText
       /\ \A w \in writes :
             mounted /\ w \notin writes' /\ w.op = "saveLetter" /\ w.st = "committed"
                => letterContent' = ClearsOnlySaved(letterContent, w.fields.content)
       /\ \A w \in writes :
             mounted /\ w \notin writes' /\ w.op = "saveCard" /\ w.st = "committed"
                => cardText' = ClearsOnlySaved(cardText, w.fields.content)]_vars

(***************************************************************************)
(* The indicator after overlapping mood presses.                           *)
(***************************************************************************)
\* the stored mood entries; the id of an entry numbers the press that wrote it
StoredMoods == {d \in docs : d.res = "moods"}

\* the entry of the latest press among the stored ones
LatestPressed == CHOOSE d \in StoredMoods : \A e \in StoredMoods : e.id <= d.id

\* C28: whenever no mood write is awaited and some mood write has succeeded,
\* the indicator is the label of the latest press among those that succeeded,
\* in whatever order the acknowledgements came; and the handler resuming on a
\* refused write leaves the indicator as it is
C28_IndicatorIsLatestPress ==
    /\ []((\A w \in writes : w.op # "recordMood") /\ StoredMoods # {}
            => currentMood = LatestPressed.fields.mood)
    /\ [][FailedResume("recordMood") => currentMood' = currentMood]_vars

(***************************************************************************)
(* The date input and the day-counter listener.                            *)
(***************************************************************************)
\* the input holds a date that is neither the stored one nor carried by a
\* request still awaited: the user selected it and has not saved it
UnsavedDate ==
    /\ userId # NULL /\ startDate.has
    /\ StoredStartDate(userId) # startDate
    /\ \A w \in writes : w.res = "daysCounter" => w.fields.startDate # startDate

\* the step is the day-counter listener's callback running
DayCounterCallback == \E s \in dirty : s.res = "daysCounter" /\ s \notin dirty'

\* C29: the day-counter listener's callback never replaces a date that was
\* selected in the input and not saved: after A is saved and B is selected,
\* the delivery of the snapshot for A leaves B in the input
C29_UnsavedDateSurvivesSnapshot ==
    [][UnsavedDate /\ DayCounterCallback => startDate' = startDate]_vars

(***************************************************************************)
(* The toast and its timers.                                               *)
(***************************************************************************)
\* the step hides the toast or blanks its message
HidesToast ==
    showNotification /\ (~showNotification' \/ notificationMessage' = NoNotification)

\* C30: a press of Notificar-me issues no request, leaves the store and every
\* state but the toast as they are and shows the toast; and a toast is hidden
\* or blanked only by the timer of the press that showed it: the timers run
\* the same delay and fire in the order of the presses, so when the toast is
\* hidden no timer of an earlier press was still to fire, the one that fires
\* being the only one set
C30_ToastHiddenByOwnTimer ==
    [][/\ Pressed("notifyMe") =>
             /\ NothingWritten
             /\ UNCHANGED <<env, timeVars, gameSchedule, mounted, authVars, subVars,
                            currentPage, modalVars, inputVars, viewVars, storeVars>>
             /\ showNotification' /\ notificationMessage' # NoNotification
       /\ HidesToast => toastTimers = 1 /\ toastTimers' = 0]_vars
====
